---------------------------- MODULE Spec2Model ----------------------------
(***************************************************************************)
(* A model of the CTCAC financing-costs parser: the cost records and the   *)
(* application record (data_models.py), the fetcher (download.py), the     *)
(* batch driver (main.py) and the workbook extractor (parser.py).          *)
(*                                                                         *)
(* Money is a Python float in the source.  Here an amount is an integer    *)
(* number of thousandths of a currency unit, so that 0.01 is 10 and the    *)
(* values just below and just above the tolerance exist; arithmetic on     *)
(* amounts is exact.  A quotient is the pair of its numerator and          *)
(* denominator.  An Optional is NoneV for None and Some(v) for a value.    *)
(***************************************************************************)
EXTENDS Integers, Sequences, FiniteSets, TLC

VARIABLES
    obj,      \* the cost record a method is called on: [cls, f]
    app,      \* the ApplicationData record a method is called on
    ret,      \* the last call and what it returned: [op, val]
    \* download_excel_files
    limit,        \* the limit argument
    disk0,        \* the file names in output_dir when the call began
    disk,         \* the file names in output_dir now
    links,        \* soup.find_all('a', href=True), once the page is fetched
    dpc,          \* where the call is: "start", "loop", "done"
    idx,          \* the index in links of the link the loop is at
    seen_files,   \* the set seen_files
    excel_files,  \* the list excel_files
    net,          \* every request of a file made so far, with its response
    dret,         \* what the call returned
    \* ExcelParser
    sheet,        \* the worksheet a helper is called on
    call,         \* the arguments of that call
    wb,           \* what the file at the parser's file_path holds
    ppc,          \* where parse() is
    self,         \* the ExcelParser: file_path, wb and its two sheets
    app_data,     \* the record parse() is assembling
    \* main
    argv,         \* sys.argv
    mdir,         \* the directory applications: None when there is none, else
                  \* the workbook each file in it holds
    mpc,          \* where main() is
    m_files,      \* main's list excel_files
    fi,           \* the index in m_files of the file the loop is at
    applications, \* main's list applications
    trace,        \* what the run has done so far, in order
    report        \* the summary file: None until written, then its rows

costVars   == <<obj>>
appVars    == <<app>>
dlVars     == <<limit, disk0, disk, links, dpc, idx, seen_files, excel_files,
                net, dret>>
helperVars == <<sheet, call>>
parseVars  == <<wb, ppc, self, app_data>>
mainVars   == <<argv, mdir, mpc, m_files, fi, applications, trace, report>>
vars       == <<obj, app, ret, dlVars, helperVars, parseVars, mainVars>>

\* What the operations of each part leave alone.
notCost   == <<appVars, dlVars, helperVars, parseVars, mainVars>>
notApp    == <<costVars, dlVars, helperVars, parseVars, mainVars>>
notDl     == <<costVars, appVars, ret, helperVars, parseVars, mainVars>>
notHelper == <<costVars, appVars, dlVars, parseVars, mainVars>>
notParse  == <<costVars, appVars, dlVars, helperVars, mainVars, ret>>
notMain   == <<costVars, appVars, dlVars, helperVars, parseVars, ret>>

---------------------------------------------------------------------------
(* Values *)

NoneV == [t |-> "None"]
Some(v) == [t |-> "some", v |-> v]
IsNone(o) == o.t = "None"
Val(o) == o.v

\* The exception a call ended with, in place of a return value.
Raised(e) == [t |-> "raise", exc |-> e]

\* Python's true division of two numbers: the quotient, kept as the pair of
\* its numerator and denominator, or ZeroDivisionError.
Div(n, d) ==
    IF d = 0 THEN Raised("ZeroDivisionError")
    ELSE [t |-> "quot", num |-> n, den |-> d]

\* The quotient times an integer.
Times(q, k) ==
    IF q.t = "quot" THEN [t |-> "quot", num |-> q.num * k, den |-> q.den]
    ELSE q

Abs(x) == IF x < 0 THEN -x ELSE x

\* One currency unit, in thousandths.
Unit == 10 * 100

\* 0.01 of a currency unit, in thousandths (data_models.py line 34 and 60).
Tolerance == 10

NoCall == [op |-> "none"]

---------------------------------------------------------------------------
(* data_models.py: ConstructionInterestFees and PermanentFinancing *)

CifFields == {"construction_loan_interest", "origination_fee",
              "credit_enhancement_fee", "bond_premium", "cost_of_issuance",
              "title_recording", "taxes", "insurance", "other_amount"}

PfFields == {"loan_origination_fee", "credit_enhancement_fee",
             "title_recording", "taxes", "insurance", "other_amount"}

\* The record a bare ConstructionInterestFees() is.
ConstructionInterestFees ==
    [construction_loan_interest |-> 0, origination_fee |-> 0,
     credit_enhancement_fee |-> 0, bond_premium |-> 0, cost_of_issuance |-> 0,
     title_recording |-> 0, taxes |-> 0, insurance |-> 0, other_amount |-> 0,
     other_description |-> <<>>, total |-> 0]

\* The record a bare PermanentFinancing() is.
PermanentFinancing ==
    [loan_origination_fee |-> 0, credit_enhancement_fee |-> 0,
     title_recording |-> 0, taxes |-> 0, insurance |-> 0, other_amount |-> 0,
     other_description |-> <<>>, total |-> 0]

CifMsg == "Total does not match sum of line items"

CifGetLineItemsSum(r) ==
    r.construction_loan_interest + r.origination_fee +
    r.credit_enhancement_fee + r.bond_premium +
    r.cost_of_issuance + r.title_recording +
    r.taxes + r.insurance + r.other_amount

CifIsValidAtLeast(r) ==
    LET line_sum == CifGetLineItemsSum(r)
    IN  IF Abs(r.total - line_sum) >= Tolerance
        THEN <<FALSE, CifMsg>>
        ELSE <<TRUE, "">>

CifIsValid(r) ==
    LET line_sum == CifGetLineItemsSum(r)
    IN  IF Abs(r.total - line_sum) > Tolerance
        THEN <<FALSE, CifMsg>>
        ELSE <<TRUE, "">>

PfGetLineItemsSum(r) ==
    r.loan_origination_fee + r.credit_enhancement_fee +
    r.title_recording + r.taxes + r.insurance +
    r.other_amount

PfIsValid(r) ==
    LET line_sum == PfGetLineItemsSum(r)
    IN  IF Abs(r.total - line_sum) > Tolerance
        THEN <<FALSE, CifMsg>>
        ELSE <<TRUE, "">>

---------------------------------------------------------------------------
(* The cost records a method is called on: every line item is absent (0)   *)
(* or one currency unit, and the reported total lies at, just inside or    *)
(* just outside the tolerance around some reachable sum.                   *)

ItemAmounts == {0, Unit}

TotalOffsets == {-(Tolerance + 1), -Tolerance, -(Tolerance - 1), 0,
                 Tolerance - 1, Tolerance, Tolerance + 1}

Totals(n) == {k * Unit + d : k \in 0..n, d \in TotalOffsets}

CifInputs ==
    {[construction_loan_interest |-> a1, origination_fee |-> a2,
      credit_enhancement_fee |-> a3, bond_premium |-> a4,
      cost_of_issuance |-> a5, title_recording |-> a6, taxes |-> a7,
      insurance |-> a8, other_amount |-> a9, other_description |-> <<>>,
      total |-> t] :
        a1 \in ItemAmounts, a2 \in ItemAmounts, a3 \in ItemAmounts,
        a4 \in ItemAmounts, a5 \in ItemAmounts, a6 \in ItemAmounts,
        a7 \in ItemAmounts, a8 \in ItemAmounts, a9 \in ItemAmounts,
        t \in Totals(9)}

PfInputs ==
    {[loan_origination_fee |-> a1, credit_enhancement_fee |-> a2,
      title_recording |-> a3, taxes |-> a4, insurance |-> a5,
      other_amount |-> a6, other_description |-> <<>>, total |-> t] :
        a1 \in ItemAmounts, a2 \in ItemAmounts, a3 \in ItemAmounts,
        a4 \in ItemAmounts, a5 \in ItemAmounts, a6 \in ItemAmounts,
        t \in Totals(6)}

NoObj == [cls |-> "none"]
NoApp == [cls |-> "none"]

\* The parts of the state a specification does not use stay as they are here.
IdleCost == obj = NoObj
IdleApp  == app = NoApp
IdleDl ==
    /\ limit = NoneV /\ disk0 = {} /\ disk = {} /\ links = <<>>
    /\ dpc = "idle" /\ idx = 0 /\ seen_files = {} /\ excel_files = <<>>
    /\ net = <<>> /\ dret = NoneV
IdleHelper == sheet = [title |-> <<>>, cells |-> <<>>] /\ call = [op |-> "none"]
IdleParse ==
    /\ wb = NoneV /\ ppc = "idle" /\ self = NoneV /\ app_data = NoneV
IdleMain ==
    /\ argv = {} /\ mdir = NoneV /\ mpc = "idle" /\ m_files = <<>> /\ fi = 0
    /\ applications = <<>> /\ trace = <<>> /\ report = NoneV

InitCost ==
    /\ \/ \E r \in CifInputs : obj = [cls |-> "ConstructionInterestFees", f |-> r]
       \/ \E r \in PfInputs : obj = [cls |-> "PermanentFinancing", f |-> r]
    /\ ret = NoCall
    /\ IdleApp /\ IdleDl /\ IdleHelper /\ IdleParse /\ IdleMain

CallCifGetLineItemsSum ==
    /\ obj.cls = "ConstructionInterestFees"
    /\ ret = NoCall
    /\ ret' = [op |-> "get_line_items_sum", val |-> CifGetLineItemsSum(obj.f)]
    /\ UNCHANGED <<obj, notCost>>

CallCifIsValid ==
    /\ obj.cls = "ConstructionInterestFees"
    /\ ret = NoCall
    /\ ret' = [op |-> "is_valid", val |-> CifIsValid(obj.f)]
    /\ UNCHANGED <<obj, notCost>>

CallPfGetLineItemsSum ==
    /\ obj.cls = "PermanentFinancing"
    /\ ret = NoCall
    /\ ret' = [op |-> "get_line_items_sum", val |-> PfGetLineItemsSum(obj.f)]
    /\ UNCHANGED <<obj, notCost>>

CallPfIsValid ==
    /\ obj.cls = "PermanentFinancing"
    /\ ret = NoCall
    /\ ret' = [op |-> "is_valid", val |-> PfIsValid(obj.f)]
    /\ UNCHANGED <<obj, notCost>>

NextCost ==
    \/ CallCifGetLineItemsSum
    \/ CallCifIsValid
    \/ CallPfGetLineItemsSum
    \/ CallPfIsValid

SpecCost == InitCost /\ [][NextCost]_vars

\* The sum of every line item of the record is_valid was called on, written
\* out field by field.
C1_ItemsTotal ==
    IF obj.cls = "ConstructionInterestFees"
    THEN obj.f.construction_loan_interest + obj.f.origination_fee
         + obj.f.credit_enhancement_fee + obj.f.bond_premium
         + obj.f.cost_of_issuance + obj.f.title_recording + obj.f.taxes
         + obj.f.insurance + obj.f.other_amount
    ELSE obj.f.loan_origination_fee + obj.f.credit_enhancement_fee
         + obj.f.title_recording + obj.f.taxes + obj.f.insurance
         + obj.f.other_amount

\* C1: for a ConstructionInterestFees and for a PermanentFinancing record,
\* is_valid() returns false exactly when the reported total and the sum of
\* all line items (other_amount included) differ by strictly more than 0.01;
\* a difference of 0.01 or less is valid.
C1_IsValidIffWithinTolerance ==
    ret.op = "is_valid" =>
        (ret.val[1] = FALSE <=> Abs(obj.f.total - C1_ItemsTotal) > Tolerance)

\* is_valid was called on a record whose other_amount is set and whose total
\* is exactly 0.01 away from the sum of its line items, and returned true.
C1_Witness ==
    /\ ret.op = "is_valid"
    /\ obj.f.other_amount > 0
    /\ Abs(obj.f.total - C1_ItemsTotal) = Tolerance
    /\ ret.val[1] = TRUE

---------------------------------------------------------------------------
(* data_models.py: ApplicationData *)

\* The record a bare ApplicationData() is.
ApplicationData ==
    [cls |-> "ApplicationData",
     application_name |-> "", file_path |-> "",
     construction_interest_fees |-> ConstructionInterestFees,
     permanent_financing |-> PermanentFinancing,
     total_units |-> NoneV, total_square_feet |-> NoneV,
     new_construction_total |-> NoneV,
     validation_errors |-> <<>>, validation_warnings |-> <<>>]

\* Python's truth value of an Optional number: None and 0 are false.
Truthy(o) == ~IsNone(o) /\ Val(o) # 0

GetCombinedFinancingCosts(a) ==
    a.construction_interest_fees.total + a.permanent_financing.total

GetFinancingCostsPerUnitIfSet(a) ==
    IF ~IsNone(a.total_units)
    THEN Div(GetCombinedFinancingCosts(a), Val(a.total_units))
    ELSE NoneV

GetFinancingCostsPerUnit(a) ==
    IF Truthy(a.total_units) /\ Val(a.total_units) > 0
    THEN Div(GetCombinedFinancingCosts(a), Val(a.total_units))
    ELSE NoneV

GetFinancingCostsPerSf(a) ==
    IF Truthy(a.total_square_feet) /\ Val(a.total_square_feet) > 0
    THEN Div(GetCombinedFinancingCosts(a), Val(a.total_square_feet))
    ELSE NoneV

GetFinancingCostsPctHardCosts(a) ==
    IF Truthy(a.new_construction_total) /\ Val(a.new_construction_total) > 0
    THEN Times(Div(GetCombinedFinancingCosts(a), Val(a.new_construction_total)), 100)
    ELSE NoneV

\* Validate without the two assignments of lines 102-103: the entries are
\* added to those the lists hold.
ValidateAppending(a) ==
    LET c == CifIsValid(a.construction_interest_fees)
        p == PfIsValid(a.permanent_financing)
        e1 == IF ~c[1] THEN <<<<"Construction Interest & Fees", c[2]>>>> ELSE <<>>
        e2 == IF ~p[1] THEN <<<<"Permanent Financing", p[2]>>>> ELSE <<>>
        w1 == IF IsNone(a.total_units) THEN <<"Total units not found">> ELSE <<>>
        w2 == IF IsNone(a.total_square_feet)
              THEN <<"Total square footage not found">> ELSE <<>>
        w3 == IF IsNone(a.new_construction_total)
              THEN <<"New Construction total not found (using fallback)">> ELSE <<>>
    IN  [a EXCEPT !.validation_errors = a.validation_errors \o e1 \o e2,
                  !.validation_warnings = a.validation_warnings \o w1 \o w2 \o w3]

\* validate(): both lists are emptied, then refilled.
Validate(a) ==
    LET c == CifIsValid(a.construction_interest_fees)
        p == PfIsValid(a.permanent_financing)
        e1 == IF ~c[1] THEN <<<<"Construction Interest & Fees", c[2]>>>> ELSE <<>>
        e2 == IF ~p[1] THEN <<<<"Permanent Financing", p[2]>>>> ELSE <<>>
        w1 == IF IsNone(a.total_units) THEN <<"Total units not found">> ELSE <<>>
        w2 == IF IsNone(a.total_square_feet)
              THEN <<"Total square footage not found">> ELSE <<>>
        w3 == IF IsNone(a.new_construction_total)
              THEN <<"New Construction total not found (using fallback)">> ELSE <<>>
    IN  [a EXCEPT !.validation_errors = e1 \o e2,
                  !.validation_warnings = w1 \o w2 \o w3]

---------------------------------------------------------------------------
(* The application records a method is called on: the two cost sections    *)
(* are each empty, consistent or inconsistent; each denominator is unset,  *)
(* negative, zero or positive.                                             *)

\* The largest denominator tried, in units (whole units for the unit count,
\* halves for the square footage, whole currency units for the hard costs).
MaxDenom == 2

CifSamples ==
    {ConstructionInterestFees,
     [ConstructionInterestFees EXCEPT
        !.construction_loan_interest = 100 * Unit,
        !.origination_fee = 5 * Unit, !.total = 105 * Unit],
     [ConstructionInterestFees EXCEPT !.taxes = 3 * Unit, !.total = 7 * Unit]}

PfSamples ==
    {PermanentFinancing,
     [PermanentFinancing EXCEPT
        !.loan_origination_fee = 20 * Unit, !.total = 20 * Unit],
     [PermanentFinancing EXCEPT !.other_amount = 3 * Unit, !.total = 1 * Unit]}

Denominators(step) == {NoneV} \cup {Some(n * step) : n \in -1..MaxDenom}

\* A validate() of an earlier moment may have left entries in both lists.
StaleErrors   == << <<>>, << <<"stale", "">> >> >>
StaleWarnings == << <<>>, <<"stale">> >>

AppInputs ==
    {[ApplicationData EXCEPT
        !.construction_interest_fees = c, !.permanent_financing = p,
        !.total_units = u, !.total_square_feet = s,
        !.new_construction_total = n,
        !.validation_errors = StaleErrors[k],
        !.validation_warnings = StaleWarnings[k]] :
        c \in CifSamples, p \in PfSamples, u \in Denominators(1),
        s \in Denominators(Unit \div 2), n \in Denominators(Unit),
        k \in 1..2}

InitApp ==
    /\ app \in AppInputs
    /\ ret = NoCall
    /\ IdleCost /\ IdleDl /\ IdleHelper /\ IdleParse /\ IdleMain

CallGetCombinedFinancingCosts ==
    /\ app.cls = "ApplicationData"
    /\ ret = NoCall
    /\ ret' = [op |-> "get_combined_financing_costs",
               val |-> GetCombinedFinancingCosts(app)]
    /\ UNCHANGED <<app, notApp>>

CallGetFinancingCostsPerUnit ==
    /\ app.cls = "ApplicationData"
    /\ ret = NoCall
    /\ ret' = [op |-> "get_financing_costs_per_unit",
               val |-> GetFinancingCostsPerUnit(app)]
    /\ UNCHANGED <<app, notApp>>

CallGetFinancingCostsPerSf ==
    /\ app.cls = "ApplicationData"
    /\ ret = NoCall
    /\ ret' = [op |-> "get_financing_costs_per_sf",
               val |-> GetFinancingCostsPerSf(app)]
    /\ UNCHANGED <<app, notApp>>

CallGetFinancingCostsPctHardCosts ==
    /\ app.cls = "ApplicationData"
    /\ ret = NoCall
    /\ ret' = [op |-> "get_financing_costs_pct_hard_costs",
               val |-> GetFinancingCostsPctHardCosts(app)]
    /\ UNCHANGED <<app, notApp>>

\* validate() may be called again on a record it has already annotated.
CallValidate ==
    /\ app.cls = "ApplicationData"
    /\ ret.op \in {"none", "validate"}
    /\ app' = Validate(app)
    /\ ret' = [op |-> "validate", val |-> NoneV]
    /\ UNCHANGED notApp

NextApp ==
    \/ CallGetCombinedFinancingCosts
    \/ CallGetFinancingCostsPerUnit
    \/ CallGetFinancingCostsPerSf
    \/ CallGetFinancingCostsPctHardCosts
    \/ CallValidate

SpecApp == InitApp /\ [][NextApp]_vars

\* The metric the last call returned is undefined when its denominator d is
\* unset, zero or negative, and is otherwise k times the combined cost over d.
C2_MetricIs(d, k) ==
    IF IsNone(d) \/ Val(d) <= 0
    THEN ret.val = NoneV
    ELSE ret.val = [t |-> "quot",
                    num |-> k * (app.construction_interest_fees.total
                                 + app.permanent_financing.total),
                    den |-> Val(d)]

\* C2: each derived metric of an ApplicationData record is None (neither zero
\* nor an exception) when its denominator is unset, zero or negative, and is
\* otherwise (construction total + permanent total) over the denominator,
\* times 100 for the percent-of-hard-costs metric.
C2_DerivedMetrics ==
    /\ ret.op = "get_financing_costs_per_unit" =>
            C2_MetricIs(app.total_units, 1)
    /\ ret.op = "get_financing_costs_per_sf" =>
            C2_MetricIs(app.total_square_feet, 1)
    /\ ret.op = "get_financing_costs_pct_hard_costs" =>
            C2_MetricIs(app.new_construction_total, 100)
    /\ ret.op = "get_combined_financing_costs" =>
            ret.val = app.construction_interest_fees.total
                      + app.permanent_financing.total

\* The per-unit metric was asked of a record with a zero unit count and came
\* back undefined, on a record whose combined cost is not zero.
C2_Witness ==
    /\ ret.op = "get_financing_costs_per_unit"
    /\ app.total_units = Some(0)
    /\ app.construction_interest_fees.total + app.permanent_financing.total > 0
    /\ ret.val = NoneV

---------------------------------------------------------------------------
(* download.py: download_excel_files.                                      *)
(*                                                                         *)
(* A string the code splits is a sequence of tokens in which "/" and "?"   *)
(* are tokens of their own and so is a file extension; a path is the pair  *)
(* of its directory and its file name.  The output directory is taken to   *)
(* be creatable and writable: os.makedirs and the write of a fetched file  *)
(* succeed.                                                                *)

Ext == {".xlsx", ".xls"}

\* str.lower() on a token.
LowerTok(t) ==
    CASE t = ".XLSX" -> ".xlsx"
      [] t = ".XLS" -> ".xls"
      [] t = "Download" -> "download"
      [] t = "Excel" -> "excel"
      [] OTHER -> t

\* s.endswith(('.xlsx', '.xls'))
EndsWithExt(s) == Len(s) > 0 /\ s[Len(s)] \in Ext

\* 'w' in s.lower(), for a token w; a token holding w as a part counts.
HasTok(s, ws) == \E i \in 1..Len(s) : LowerTok(s[i]) \in ws

\* s.split(sep)[0]
BeforeFirst(s, sep) ==
    IF \E i \in 1..Len(s) : s[i] = sep
    THEN LET i == CHOOSE i \in 1..Len(s) :
                      s[i] = sep /\ \A j \in 1..(i - 1) : s[j] # sep
         IN  SubSeq(s, 1, i - 1)
    ELSE s

\* s.split(sep)[-1]; os.path.basename for sep = "/"
AfterLast(s, sep) ==
    IF \E i \in 1..Len(s) : s[i] = sep
    THEN LET i == CHOOSE i \in 1..Len(s) :
                      s[i] = sep /\ \A j \in (i + 1)..Len(s) : s[j] # sep
         IN  SubSeq(s, i + 1, Len(s))
    ELSE s

IsExcel(link) ==
    \/ EndsWithExt(link.href)
    \/ HasTok(link.href, {".xlsx"})
    \/ HasTok(link.href, {".xlsx", ".xls"})
    \/ HasTok(link.text, {"excel"})
    \/ HasTok(link.text, {"download"})

base_url == <<"https://www.treasurer.ca.gov">>
page_url == <<"https://www.treasurer.ca.gov", "/", "ctcac", "/", "index.asp">>

\* url.rsplit('/', 1)[0]
PageDir(url) ==
    IF \E i \in 1..Len(url) : url[i] = "/"
    THEN LET i == CHOOSE i \in 1..Len(url) :
                      url[i] = "/" /\ \A j \in (i + 1)..Len(url) : url[j] # "/"
         IN  SubSeq(url, 1, i - 1)
    ELSE url

FileUrl(href) ==
    IF Len(href) > 0 /\ href[1] = "/" THEN base_url \o href
    ELSE IF Len(href) > 0 /\ href[1] = "http:" THEN href
    ELSE PageDir(page_url) \o <<"/">> \o href

DeriveFilename(href) ==
    LET f1 == AfterLast(BeforeFirst(href, "?"), "/")
        f2 == IF \E i \in 1..Len(href) : href[i] = "/"
              THEN BeforeFirst(AfterLast(href, "/"), "?")
              ELSE f1
    IN  IF EndsWithExt(f1) THEN f1
        ELSE IF EndsWithExt(f2) THEN f2
        ELSE f2 \o <<".xlsx">>

output_dir == "applications"

\* os.path.join(output_dir, filename)
FilePath(filename) == [dir |-> output_dir, name |-> filename]

\* The responses a request of a file can get: an exception (a connection
\* error, a timeout, an HTTP error status), or a content type and a body.
PK == <<80, 75, 3, 4>>
OLE == <<208, 207, 17, 224>>
Responses ==
    {[t |-> "error"],
     [t |-> "ok", content_type |-> <<"application/vnd.ms-", "Excel">>,
      content |-> OLE \o <<0>>],
     [t |-> "ok", content_type |-> <<"application/vnd.openxml.", "spreadsheet", "ml.sheet">>,
      content |-> PK \o <<20>>],
     [t |-> "ok", content_type |-> <<"application/octet-stream">>,
      content |-> PK \o <<20>>],
     [t |-> "ok", content_type |-> <<"text/html">>,
      content |-> <<60, 104, 116, 109, 108>>],
     [t |-> "ok", content_type |-> <<>>, content |-> <<80, 75>>]}

\* content[:4]
First4(b) == SubSeq(b, 1, IF Len(b) < 4 THEN Len(b) ELSE 4)

\* LooksLikeExcel comparing the first two bytes only.
LooksLikeExcelTwoBytes(r) ==
    \/ HasTok(r.content_type, {"excel"})
    \/ HasTok(r.content_type, {"spreadsheet"})
    \/ SubSeq(r.content, 1, 2) = SubSeq(PK, 1, 2)

\* The test of line 89 on a response that did not raise.
LooksLikeExcel(r) ==
    \/ HasTok(r.content_type, {"excel"})
    \/ HasTok(r.content_type, {"spreadsheet"})
    \/ First4(r.content) = PK

\* The <a href> elements a listing page can hold.
LinkSet ==
    {[href |-> <<"/", "docs", "/", "a", ".xlsx">>, text |-> <<"App", "A">>],
     [href |-> <<"files", "/", "a", ".xlsx", "?", "v=2">>, text |-> <<>>],
     [href |-> <<"http:", "/", "/", "x", "/", "b", ".xls">>, text |-> <<"B">>],
     [href |-> <<"/", "dl", "?", "id=7">>, text |-> <<"Download">>],
     [href |-> <<"/", "about.html">>, text |-> <<"About">>]}

\* The longest listing page, in links.
MaxLinks == 3

\* The largest limit tried.
MaxLimit == 2

RECURSIVE SeqsUpTo(_, _)
SeqsUpTo(S, n) ==
    IF n = 0 THEN {<<>>}
    ELSE LET shorter == SeqsUpTo(S, n - 1)
         IN  shorter \cup {Append(q, x) : q \in {r \in shorter : Len(r) = n - 1}, x \in S}

\* The files output_dir can already hold.
DiskFiles == {<<"a", ".xlsx">>, <<"b", ".xls">>}

InitDl ==
    /\ limit \in {NoneV} \cup {Some(n) : n \in 0..MaxLimit}
    /\ disk0 \in SUBSET DiskFiles
    /\ disk = disk0
    /\ links = <<>>
    /\ dpc = "start"
    /\ idx = 0
    /\ seen_files = {}
    /\ excel_files = <<>>
    /\ net = <<>>
    /\ dret = NoneV
    /\ ret = NoCall
    /\ IdleCost /\ IdleApp /\ IdleHelper /\ IdleParse /\ IdleMain

\* Lines 23-35: the directory is made, the page is fetched and parsed.
DlFetchPage ==
    /\ dpc = "start"
    /\ links' \in SeqsUpTo(LinkSet, MaxLinks)
    /\ dpc' = "loop"
    /\ idx' = 1
    /\ UNCHANGED <<limit, disk0, disk, seen_files, excel_files, net, dret, notDl>>

\* Lines 26-27 raise: the outer handler of lines 100-102 returns [].
DlPageError ==
    /\ dpc = "start"
    /\ dpc' = "done"
    /\ dret' = Some(<<>>)
    /\ UNCHANGED <<limit, disk0, disk, links, idx, seen_files, excel_files, net, notDl>>

\* `if limit and len(excel_files) >= limit`
LimitReached == Truthy(limit) /\ Len(excel_files) >= Val(limit)

\* Lines 37-38: break, then return excel_files.
DlBreak ==
    /\ dpc = "loop" /\ idx <= Len(links)
    /\ LimitReached
    /\ dpc' = "done"
    /\ dret' = Some(excel_files)
    /\ UNCHANGED <<limit, disk0, disk, links, idx, seen_files, excel_files, net, notDl>>

\* Line 50 is false: the link is no Excel link.
DlNotExcel ==
    /\ dpc = "loop" /\ idx <= Len(links)
    /\ ~LimitReached
    /\ ~IsExcel(links[idx])
    /\ idx' = idx + 1
    /\ UNCHANGED <<limit, disk0, disk, links, dpc, seen_files, excel_files, net, dret, notDl>>

\* Lines 70-71: the file name was derived by an earlier link.
DlSeen ==
    /\ dpc = "loop" /\ idx <= Len(links)
    /\ ~LimitReached
    /\ IsExcel(links[idx])
    /\ DeriveFilename(links[idx].href) \in seen_files
    /\ idx' = idx + 1
    /\ UNCHANGED <<limit, disk0, disk, links, dpc, seen_files, excel_files, net, dret, notDl>>

\* Lines 72-80: the file is in output_dir already.
DlExists ==
    /\ dpc = "loop" /\ idx <= Len(links)
    /\ ~LimitReached
    /\ IsExcel(links[idx])
    /\ LET filename == DeriveFilename(links[idx].href)
       IN  /\ filename \notin seen_files
           /\ seen_files' = seen_files \cup {filename}
           /\ filename \in disk
           /\ excel_files' = Append(excel_files, FilePath(filename))
    /\ idx' = idx + 1
    /\ UNCHANGED <<limit, disk0, disk, links, dpc, net, dret, notDl>>

\* The request of link idx, answered by resp, as the log keeps it.
Request(resp) ==
    [i |-> idx, url |-> FileUrl(links[idx].href),
     filename |-> DeriveFilename(links[idx].href), resp |-> resp]

\* DlFetch with seen_files.add moved behind the successful write.
DlFetchSeenOnSuccess ==
    /\ dpc = "loop" /\ idx <= Len(links)
    /\ ~LimitReached
    /\ IsExcel(links[idx])
    /\ \E resp \in Responses :
        LET filename == DeriveFilename(links[idx].href)
            saved == resp.t = "ok" /\ LooksLikeExcel(resp)
        IN  /\ filename \notin seen_files
            /\ filename \notin disk
            /\ net' = Append(net, Request(resp))
            /\ seen_files' = IF saved THEN seen_files \cup {filename} ELSE seen_files
            /\ disk' = IF saved THEN disk \cup {filename} ELSE disk
            /\ excel_files' = IF saved THEN Append(excel_files, FilePath(filename))
                              ELSE excel_files
    /\ idx' = idx + 1
    /\ UNCHANGED <<limit, disk0, links, dpc, dret, notDl>>

\* DlFetch without the inner try: a failed request reaches the outer handler
\* of lines 100-102, which returns [].
DlFetchNoInnerTry ==
    /\ dpc = "loop" /\ idx <= Len(links)
    /\ ~LimitReached
    /\ IsExcel(links[idx])
    /\ \E resp \in Responses :
        LET filename == DeriveFilename(links[idx].href)
            saved == resp.t = "ok" /\ LooksLikeExcel(resp)
        IN  /\ filename \notin seen_files
            /\ filename \notin disk
            /\ net' = Append(net, Request(resp))
            /\ seen_files' = seen_files \cup {filename}
            /\ disk' = IF saved THEN disk \cup {filename} ELSE disk
            /\ excel_files' = IF saved THEN Append(excel_files, FilePath(filename))
                              ELSE excel_files
            /\ IF resp.t = "error"
               THEN dpc' = "done" /\ dret' = Some(<<>>) /\ idx' = idx
               ELSE dpc' = dpc /\ dret' = dret /\ idx' = idx + 1
    /\ UNCHANGED <<limit, disk0, links, notDl>>

\* Lines 72-97: the file is requested.  A response that raises is caught by
\* the handler of lines 96-97; one that looks like a spreadsheet is written
\* and its path appended; any other is dropped.  In each case the loop goes
\* on to the next link.
DlFetch ==
    /\ dpc = "loop" /\ idx <= Len(links)
    /\ ~LimitReached
    /\ IsExcel(links[idx])
    /\ \E resp \in Responses :
        LET filename == DeriveFilename(links[idx].href)
            saved == resp.t = "ok" /\ LooksLikeExcel(resp)
        IN  /\ filename \notin seen_files
            /\ seen_files' = seen_files \cup {filename}
            /\ filename \notin disk
            /\ net' = Append(net, Request(resp))
            /\ disk' = IF saved THEN disk \cup {filename} ELSE disk
            /\ excel_files' = IF saved THEN Append(excel_files, FilePath(filename))
                              ELSE excel_files
    /\ idx' = idx + 1
    /\ UNCHANGED <<limit, disk0, links, dpc, dret, notDl>>

\* Line 99: the loop has run past the last link.
DlReturn ==
    /\ dpc = "loop" /\ idx > Len(links)
    /\ dpc' = "done"
    /\ dret' = Some(excel_files)
    /\ UNCHANGED <<limit, disk0, disk, links, idx, seen_files, excel_files, net, notDl>>

NextDl ==
    \/ DlFetchPage
    \/ DlPageError
    \/ DlBreak
    \/ DlNotExcel
    \/ DlSeen
    \/ DlExists
    \/ DlFetch
    \/ DlReturn

SpecDownload == InitDl /\ [][NextDl]_vars

Range(q) == {q[i] : i \in 1..Len(q)}

\* The response was written to output_dir.
C3_Saved(r) == r.t = "ok" /\ LooksLikeExcel(r)

\* C3 as stated: no file name is requested twice, a file name in output_dir
\* when the call began is never requested, and the path of every such file
\* name that a link of the page derives is in the returned list.
C3_Original ==
    /\ \A j, k \in 1..Len(net) : net[j].filename = net[k].filename => j = k
    /\ \A j \in 1..Len(net) : net[j].filename \notin disk0
    /\ dpc = "done" =>
        \A i \in 1..Len(links) :
            (IsExcel(links[i]) /\ DeriveFilename(links[i].href) \in disk0)
                => FilePath(DeriveFilename(links[i].href)) \in Range(Val(dret))

\* C3 (amended): in one call, no derived file name is requested twice,
\* whatever the first request's outcome; a file name in output_dir when the
\* call began is never requested; and its path is in the returned list when
\* the scan reached a link deriving it before the limit stopped the scan.
C3_DedupeAndExisting ==
    /\ \A j, k \in 1..Len(net) : net[j].filename = net[k].filename => j = k
    /\ \A j \in 1..Len(net) : net[j].filename \notin disk0
    /\ dpc = "done" =>
        \A i \in 1..Len(links) :
            (IsExcel(links[i]) /\ DeriveFilename(links[i].href) \in disk0
             /\ i < idx)
                => FilePath(DeriveFilename(links[i].href)) \in Range(Val(dret))

\* The call has returned; a request failed and a later link deriving the same
\* file name was passed over; a file that was in output_dir is in the
\* returned list.
C3_Witness ==
    /\ dpc = "done"
    /\ \E j \in 1..Len(net) :
        /\ net[j].resp.t = "error"
        /\ \E k \in (net[j].i + 1)..(idx - 1) :
            IsExcel(links[k]) /\ DeriveFilename(links[k].href) = net[j].filename
    /\ \E f \in disk0 : FilePath(f) \in Range(Val(dret))

---------------------------------------------------------------------------
(* parser.py: cell values and strings.                                     *)
(*                                                                         *)
(* A str is the sequence of its characters.  A cell's value is None, a     *)
(* number (an amount in thousandths; a whole amount stands for a Python    *)
(* int, any other for a float), a str, a bool or a datetime.  A worksheet  *)
(* is its title and the values of the cells it holds; sheet.cell(r, c) of  *)
(* a cell it does not hold is an empty cell.                               *)

Empty == [t |-> "none"]
Num(v) == [t |-> "num", v |-> v]
Str(s) == [t |-> "str", s |-> s]
Bool(b) == [t |-> "bool", b |-> b]
DateTime == [t |-> "datetime"]

Uppers == <<"A", "B", "C", "D", "E", "F", "G", "H", "I", "J", "K", "L", "M", "N", "O", "P", "Q", "R", "S", "T", "U", "V", "W", "X", "Y", "Z">>
Lowers == <<"a", "b", "c", "d", "e", "f", "g", "h", "i", "j", "k", "l", "m", "n", "o", "p", "q", "r", "s", "t", "u", "v", "w", "x", "y", "z">>
DigitChars == <<"0", "1", "2", "3", "4", "5", "6", "7", "8", "9">>

IsDigit(c) == \E i \in 1..10 : DigitChars[i] = c
DigitVal(c) == (CHOOSE i \in 1..10 : DigitChars[i] = c) - 1

LowerChar(c) ==
    IF \E i \in 1..26 : Uppers[i] = c
    THEN Lowers[CHOOSE i \in 1..26 : Uppers[i] = c]
    ELSE c

\* str.lower()
Lower(s) == [i \in 1..Len(s) |-> LowerChar(s[i])]

\* `sub in s`
Contains(s, sub) ==
    \E k \in 0..(Len(s) - Len(sub)) : SubSeq(s, k + 1, k + Len(sub)) = sub

\* str.strip(), of spaces
RECURSIVE LStrip(_)
LStrip(s) == IF Len(s) > 0 /\ s[1] = " " THEN LStrip(Tail(s)) ELSE s
RECURSIVE RStrip(_)
RStrip(s) ==
    IF Len(s) > 0 /\ s[Len(s)] = " " THEN RStrip(SubSeq(s, 1, Len(s) - 1)) ELSE s
Strip(s) == LStrip(RStrip(s))

\* str(n) of a natural number
RECURSIVE NatStr(_)
NatStr(n) ==
    IF n < 10 THEN <<DigitChars[n + 1]>>
    ELSE NatStr(n \div 10) \o <<DigitChars[(n % 10) + 1]>>

\* The digits of a fraction given in thousandths, trailing zeros dropped.
FracStr(m) ==
    IF m % 100 = 0 THEN NatStr(m \div 100)
    ELSE IF m % 10 = 0 THEN NatStr(m \div 100) \o NatStr((m \div 10) % 10)
    ELSE NatStr(m \div 100) \o NatStr((m \div 10) % 10) \o NatStr(m % 10)

\* str(x) of a number: of an int when the amount is whole, else of a float.
NumStr(v) ==
    LET a == Abs(v)
        sign == IF v < 0 THEN <<"-">> ELSE <<>>
    IN  IF a % Unit = 0 THEN sign \o NatStr(a \div Unit)
        ELSE sign \o NatStr(a \div Unit) \o <<".">> \o FracStr(a % Unit)

\* str(cell.value)
PyStr(x) ==
    CASE x.t = "str" -> x.s
      [] x.t = "num" -> NumStr(x.v)
      [] x.t = "bool" -> IF x.b THEN <<"T", "r", "u", "e">> ELSE <<"F", "a", "l", "s", "e">>
      [] x.t = "datetime" -> <<"2", "0", "2", "5", "-", "0", "1", "-", "0", "1", " ", "0", "0", ":", "0", "0", ":", "0", "0">>
      [] OTHER -> <<"N", "o", "n", "e">>

\* Python's truth value of a cell's value.
CellTruthy(x) ==
    CASE x.t = "none" -> FALSE
      [] x.t = "str" -> x.s # <<>>
      [] x.t = "num" -> x.v # 0
      [] x.t = "bool" -> x.b
      [] OTHER -> TRUE

\* sheet.cell(row, col).value
CellValue(sh, r, c) ==
    IF <<r, c>> \in DOMAIN sh.cells THEN sh.cells[<<r, c>>] ELSE Empty

Max(S) == CHOOSE x \in S : \A y \in S : y <= x

\* sheet.max_row and sheet.max_column (1 for a sheet holding no cell)
MaxRow(sh) == IF DOMAIN sh.cells = {} THEN 1 ELSE Max({rc[1] : rc \in DOMAIN sh.cells})
MaxColumn(sh) == IF DOMAIN sh.cells = {} THEN 1 ELSE Max({rc[2] : rc \in DOMAIN sh.cells})

---------------------------------------------------------------------------
(* parser.py: find_cell_by_text and extract_number_from_cell *)

\* Lines 49-56 for one cell: whether the scan returns at this cell.
FindMatches(x, search_text_lower, exact_match) ==
    CellTruthy(x) /\
    LET cell_text == Lower(PyStr(x))
    IN  IF exact_match THEN cell_text = search_text_lower
        ELSE Contains(cell_text, search_text_lower)

\* The scan of lines 47-57 from the k-th cell on, rows first.
RECURSIVE FindScan(_, _, _, _)
FindScan(sh, search_text_lower, exact_match, k) ==
    LET ncol == MaxColumn(sh)
        r == (k \div ncol) + 1
        c == (k % ncol) + 1
    IN  IF r > MaxRow(sh) THEN NoneV
        ELSE IF FindMatches(CellValue(sh, r, c), search_text_lower, exact_match)
        THEN Some(<<r, c>>)
        ELSE FindScan(sh, search_text_lower, exact_match, k + 1)

\* FindCellByText scanning columns first.
FindCellByTextColumnMajor(sh, search_text, exact_match) ==
    LET low == Lower(search_text)
        hits == {rc \in DOMAIN sh.cells : FindMatches(sh.cells[rc], low, exact_match)}
    IN  IF hits = {} THEN NoneV
        ELSE Some(CHOOSE rc \in hits : \A o \in hits :
                    rc[2] < o[2] \/ (rc[2] = o[2] /\ rc[1] <= o[1]))

FindCellByText(sh, search_text, exact_match) ==
    IF DOMAIN sh.cells = {} THEN NoneV
    ELSE FindScan(sh, Lower(search_text), exact_match, 0)

\* KeepChar of the pattern [^\d.], which drops the minus sign too.
KeepCharNoMinus(c) == IsDigit(c) \/ c = "."

\* The characters re.sub(r"[^\d.-]", "", s) keeps.
KeepChar(c) == IsDigit(c) \/ c = "." \/ c = "-"

Cleaned(s) == SelectSeq(s, KeepChar)

\* float(s) of a string of digits, periods and minus signs, read left to
\* right: st is "start", "int" (digits seen), "dot" (a period and no digit
\* yet), "frac" (in the fraction); acc the digits so far as a number, scale
\* the value of the next fraction digit in thousandths.
RECURSIVE FloatScan(_, _, _, _, _, _)
FloatScan(s, i, st, neg, acc, scale) ==
    IF i > Len(s)
    THEN IF st \in {"int", "frac", "intdot"}
         THEN Some(IF neg THEN -acc ELSE acc)
         ELSE Raised("ValueError")
    ELSE LET c == s[i]
         IN  CASE c = "-" ->
                    IF i = 1 THEN FloatScan(s, i + 1, "start", TRUE, acc, scale)
                    ELSE Raised("ValueError")
               [] c = "." ->
                    IF st = "start" THEN FloatScan(s, i + 1, "dot", neg, acc, scale)
                    ELSE IF st = "int" THEN FloatScan(s, i + 1, "intdot", neg, acc, scale)
                    ELSE Raised("ValueError")
               [] OTHER ->
                    IF st \in {"start", "int"}
                    THEN FloatScan(s, i + 1, "int", neg, acc * 10 + DigitVal(c) * Unit, scale)
                    ELSE FloatScan(s, i + 1,
                                   IF st = "intdot" THEN "intdot" ELSE "frac",
                                   neg, acc + DigitVal(c) * scale, scale \div 10)

ParseFloat(s) == FloatScan(s, 1, "start", FALSE, 0, Unit \div 10)

\* extract_number_from_cell, given the cell's value.
NumberOf(x) ==
    CASE x.t = "none" -> 0
      [] x.t \in {"num"} -> x.v
      [] x.t = "bool" -> IF x.b THEN Unit ELSE 0
      [] x.t = "str" ->
            LET f == ParseFloat(Cleaned(x.s))
            IN  IF f.t = "raise" THEN 0 ELSE Val(f)
      [] OTHER -> 0

ExtractNumberFromCell(sh, row, col) == NumberOf(CellValue(sh, row, col))

---------------------------------------------------------------------------
(* extract_number_from_cell on one cell: every string of up to MaxStrLen   *)
(* characters of a small alphabet, the strings of the documentation, and   *)
(* each other kind of value.                                               *)

\* The longest generated cell text, in characters.
MaxStrLen == 3

TextAlphabet == {"1", "2", ".", "-", "$"}

NamedTexts == {<<"$", "1", ",", "2", "3", "4", ".", "5", "6">>, <<"N", "/", "A">>, <<"(", "1", "2", ")">>, <<"1", "e", "5">>}

CellInputs ==
    {Empty, Bool(TRUE), Bool(FALSE), DateTime}
    \cup {Num(v) : v \in {0, 42 * Unit, -1500, 1234560}}
    \cup {Str(s) : s \in SeqsUpTo(TextAlphabet, MaxStrLen) \cup NamedTexts}

InitCell ==
    /\ \E x \in CellInputs :
        sheet = [title |-> <<>>, cells |-> [rc \in {<<1, 2>>} |-> x]]
    /\ \E r \in 1..2 : call = [op |-> "extract_number_from_cell", row |-> r, col |-> 2]
    /\ ret = NoCall
    /\ IdleCost /\ IdleApp /\ IdleDl /\ IdleParse /\ IdleMain

CallExtractNumberFromCell ==
    /\ call.op = "extract_number_from_cell"
    /\ ret = NoCall
    /\ ret' = [op |-> "extract_number_from_cell",
               val |-> ExtractNumberFromCell(sheet, call.row, call.col)]
    /\ UNCHANGED <<sheet, call, notHelper>>

NextCell == CallExtractNumberFromCell

SpecCell == InitCell /\ [][NextCell]_vars

\* The text with every character that is not a digit, a period or a minus
\* sign removed.
C10_Keeps(c) == c \in {"0", "1", "2", "3", "4", "5", "6", "7", "8", "9", ".", "-"}
C10_Stripped(s) == SelectSeq(s, C10_Keeps)

RECURSIVE C10_Pow10(_)
C10_Pow10(n) == IF n <= 0 THEN 1 ELSE 10 * C10_Pow10(n - 1)

\* The decimal a stripped text denotes, in thousandths, or 0 when it denotes
\* none: an optional leading minus sign, then digits around at most one
\* period, with a digit somewhere.
C10_Decimal(c) ==
    LET neg == Len(c) > 0 /\ c[1] = "-"
        b == IF neg THEN Tail(c) ELSE c
        dots == {i \in 1..Len(b) : b[i] = "."}
        wellformed == /\ \A i \in 1..Len(b) : b[i] # "-"
                      /\ Cardinality(dots) <= 1
                      /\ \E i \in 1..Len(b) : IsDigit(b[i])
        p == IF dots = {} THEN Len(b) + 1 ELSE CHOOSE i \in dots : TRUE
        Place(i) == IF i < p THEN Unit * C10_Pow10(p - 1 - i)
                    ELSE IF i - p <= 3 THEN C10_Pow10(3 - (i - p)) ELSE 0
        Digit(i) == IF IsDigit(b[i]) THEN DigitVal(b[i]) * Place(i) ELSE 0
        Sum[i \in 0..Len(b)] == IF i = 0 THEN 0 ELSE Sum[i - 1] + Digit(i)
    IN  IF ~wellformed THEN 0
        ELSE IF neg THEN -Sum[Len(b)] ELSE Sum[Len(b)]

\* C10: extract_number_from_cell returns a number for every cell content:
\* 0 for an empty cell, the value itself for a numeric cell, for a text cell
\* the decimal of the text stripped of every character that is not a digit,
\* a period or a minus sign ("$1,234.56" gives 1234.56), and 0 when the
\* stripped text is no decimal ("N/A").
C10_NumberExtraction ==
    ret.op = "extract_number_from_cell" =>
        LET x == CellValue(sheet, call.row, call.col)
        IN  /\ ret.val \in Int
            /\ x.t = "none" => ret.val = 0
            /\ x.t = "num" => ret.val = x.v
            /\ x.t = "str" => ret.val = C10_Decimal(C10_Stripped(x.s))
            /\ x = Str(<<"$", "1", ",", "2", "3", "4", ".", "5", "6">>) => ret.val = 1234560
            /\ x = Str(<<"N", "/", "A">>) => ret.val = 0

\* The cell "$1,234.56" was read as 1234.56.
C10_Witness ==
    /\ ret.op = "extract_number_from_cell"
    /\ CellValue(sheet, call.row, call.col) = Str(<<"$", "1", ",", "2", "3", "4", ".", "5", "6">>)
    /\ ret.val = 1234560

---------------------------------------------------------------------------
(* find_cell_by_text on every sheet of up to MaxRows rows of two columns   *)
(* whose cells are drawn from a few values.                                *)

\* The most rows of a generated sheet.
MaxRows == 2

FindCells == {Empty, Str(<<"T", "o", "t", "a", "l">>), Str(<<"S", "u", "b", "t", "o", "t", "a", "l">>), Str(<<"T", "O", "T", "A", "L">>), Num(0)}

SearchTexts == {<<"T", "o", "t", "a", "l">>, <<"S", "U", "B">>, <<"0">>}

InitFind ==
    /\ \E n \in 1..MaxRows :
        \E f \in [(1..n) \X (1..2) -> FindCells] :
            sheet = [title |-> <<>>, cells |-> f]
    /\ \E t \in SearchTexts, e \in BOOLEAN :
        call = [op |-> "find_cell_by_text", search_text |-> t, exact_match |-> e]
    /\ ret = NoCall
    /\ IdleCost /\ IdleApp /\ IdleDl /\ IdleParse /\ IdleMain

CallFindCellByText ==
    /\ call.op = "find_cell_by_text"
    /\ ret = NoCall
    /\ ret' = [op |-> "find_cell_by_text",
               val |-> FindCellByText(sheet, call.search_text, call.exact_match)]
    /\ UNCHANGED <<sheet, call, notHelper>>

NextFind == CallFindCellByText

SpecFind == InitFind /\ [][NextFind]_vars

\* A cell has a text when its value is truthy (line 49): not None, not "",
\* not 0, not False.  Its text then is str(value).
C8_TextMatches(x) ==
    /\ x # Empty /\ x # Str(<<>>) /\ x # Num(0) /\ x # Bool(FALSE)
    /\ IF call.exact_match
       THEN Lower(PyStr(x)) = Lower(call.search_text)
       ELSE Contains(Lower(PyStr(x)), Lower(call.search_text))

\* Cell a comes before cell b when the sheet is read row by row.
C8_Before(a, b) == a[1] < b[1] \/ (a[1] = b[1] /\ a[2] < b[2])

\* C8: find_cell_by_text returns the position of the first cell, reading the
\* sheet row by row, whose text matches the search string without regard to
\* case (containing it, or in exact mode equal to it), and None when no cell
\* matches; an exact search for "Total" does not match "Subtotal".
C8_FirstMatchRowMajor ==
    ret.op = "find_cell_by_text" =>
        LET hits == {rc \in DOMAIN sheet.cells : C8_TextMatches(sheet.cells[rc])}
        IN  /\ hits = {} => ret.val = NoneV
            /\ hits # {} =>
                /\ ret.val.t = "some"
                /\ Val(ret.val) \in hits
                /\ \A o \in hits : ~C8_Before(o, Val(ret.val))
            /\ (call.exact_match /\ call.search_text = <<"T", "o", "t", "a", "l">> /\ ret.val.t = "some")
                    => sheet.cells[Val(ret.val)] # Str(<<"S", "u", "b", "t", "o", "t", "a", "l">>)

\* An exact search for "Total" passed over a "Subtotal" cell and returned a
\* later cell, and a cell of an earlier column lies in a later row.
C8_Witness ==
    /\ ret.op = "find_cell_by_text"
    /\ call.exact_match /\ call.search_text = <<"T", "o", "t", "a", "l">>
    /\ ret.val.t = "some"
    /\ \E rc \in DOMAIN sheet.cells :
        C8_Before(rc, Val(ret.val)) /\ sheet.cells[rc] = Str(<<"S", "u", "b", "t", "o", "t", "a", "l">>)
    /\ \E rc \in DOMAIN sheet.cells :
        /\ rc[2] < Val(ret.val)[2] /\ rc[1] > Val(ret.val)[1]
        /\ sheet.cells[rc] = Str(<<"T", "O", "T", "A", "L">>)

---------------------------------------------------------------------------
(* parser.py: load_workbook, the section extractors and parse().           *)
(*                                                                         *)
(* A workbook is the sequence of its sheets, or a file openpyxl cannot     *)
(* load.  The parser's sheet fields hold the position of a sheet in the    *)
(* workbook, as the Python fields hold a reference to it.                  *)

Txt_sources == <<"s", "o", "u", "r", "c", "e", "s">>
Txt_uses == <<"u", "s", "e", "s">>
Txt_application == <<"a", "p", "p", "l", "i", "c", "a", "t", "i", "o", "n">>
Hdr_construction == <<"C", "O", "N", "S", "T", "R", "U", "C", "T", "I", "O", "N", " ", "I", "N", "T", "E", "R", "E", "S", "T", " ", "&", " ", "F", "E", "E", "S">>
Hdr_permanent == <<"P", "E", "R", "M", "A", "N", "E", "N", "T", " ", "F", "I", "N", "A", "N", "C", "I", "N", "G">>
Txt_total_new_construction_costs == <<"t", "o", "t", "a", "l", " ", "n", "e", "w", " ", "c", "o", "n", "s", "t", "r", "u", "c", "t", "i", "o", "n", " ", "c", "o", "s", "t", "s">>
Hdr_new_construction == <<"N", "E", "W", " ", "C", "O", "N", "S", "T", "R", "U", "C", "T", "I", "O", "N">>
Txt_total == <<"t", "o", "t", "a", "l">>
Txt_construction == <<"c", "o", "n", "s", "t", "r", "u", "c", "t", "i", "o", "n">>
Txt_total_number_of_units == <<"t", "o", "t", "a", "l", " ", "n", "u", "m", "b", "e", "r", " ", "o", "f", " ", "u", "n", "i", "t", "s">>
Txt_excluding_managers == <<"e", "x", "c", "l", "u", "d", "i", "n", "g", " ", "m", "a", "n", "a", "g", "e", "r", "s">>
Txt_total_square_footage == <<"t", "o", "t", "a", "l", " ", "s", "q", "u", "a", "r", "e", " ", "f", "o", "o", "t", "a", "g", "e", " ", "o", "f", " ", "a", "l", "l", " ", "p", "r", "o", "j", "e", "c", "t", " ", "s", "t", "r", "u", "c", "t", "u", "r", "e", "s">>

\* Lines 28-35, from sheet i on: the last sheet named with "sources" and
\* "uses", and the first of the others named "application".
RECURSIVE LoadScan(_, _, _, _)
LoadScan(sheets, i, su, ap) ==
    IF i > Len(sheets) THEN [sources_uses_sheet |-> su, application_sheet |-> ap]
    ELSE LET name == Lower(sheets[i].title)
         IN  IF Contains(name, Txt_sources) /\ Contains(name, Txt_uses)
             THEN LoadScan(sheets, i + 1, Some(i), ap)
             ELSE IF name = Txt_application /\ IsNone(ap)
             THEN LoadScan(sheets, i + 1, su, Some(i))
             ELSE LoadScan(sheets, i + 1, su, ap)

\* load_workbook: the parser after the call and what the call raised.  Every
\* exception within it leaves as a ValueError (lines 39-40); the fields set
\* before it stay set.
LoadWorkbook(slf, w) ==
    IF w.t = "corrupt" THEN [self |-> slf, exc |-> Some("ValueError")]
    ELSE LET found == LoadScan(w.sheets, 1, slf.sources_uses_sheet, slf.application_sheet)
             loaded == [slf EXCEPT !.wb = Some("Workbook"),
                                   !.sources_uses_sheet = found.sources_uses_sheet,
                                   !.application_sheet = found.application_sheet]
         IN  [self |-> loaded,
              exc |-> IF IsNone(found.sources_uses_sheet) THEN Some("ValueError")
                      ELSE NoneV]

\* The rows past the header each section looks within (lines 114 and 199).
CifWindow == 20
PfWindow == 15

\* ReadB reading column C.
ReadC(sh, row, end_row, old) ==
    IF row <= end_row THEN ExtractNumberFromCell(sh, row, 3) ELSE old

\* `if current_row <= end_row: data.f = extract_number_from_cell(sheet,
\* current_row, 2) or 0.0`: the field after the step, old being its value
\* before.
ReadB(sh, row, end_row, old) ==
    IF row <= end_row THEN ExtractNumberFromCell(sh, row, 2) ELSE old

\* str(sheet.cell(row, 1).value or "").strip()
LabelText(sh, row) ==
    LET x == CellValue(sh, row, 1)
    IN  IF CellTruthy(x) THEN Strip(PyStr(x)) ELSE <<>>

\* CifSteps taking the total from the row of "other".
CifStepsShortTotal(sh, start_row) ==
    LET end_row == start_row + CifWindow
        d == ConstructionInterestFees
    IN  [construction_loan_interest |->
               ReadB(sh, start_row + 1, end_row, d.construction_loan_interest),
         origination_fee |-> ReadB(sh, start_row + 2, end_row, d.origination_fee),
         credit_enhancement_fee |->
               ReadB(sh, start_row + 3, end_row, d.credit_enhancement_fee),
         bond_premium |-> ReadB(sh, start_row + 4, end_row, d.bond_premium),
         cost_of_issuance |-> ReadB(sh, start_row + 5, end_row, d.cost_of_issuance),
         title_recording |-> ReadB(sh, start_row + 6, end_row, d.title_recording),
         taxes |-> ReadB(sh, start_row + 7, end_row, d.taxes),
         insurance |-> ReadB(sh, start_row + 8, end_row, d.insurance),
         other_amount |-> ReadB(sh, start_row + 9, end_row, d.other_amount),
         other_description |->
               IF start_row + 9 <= end_row THEN LabelText(sh, start_row + 9)
               ELSE d.other_description,
         total |-> ReadB(sh, start_row + 9, end_row, d.total)]

\* Lines 113-186 of extract_construction_interest_fees, the header found in
\* start_row.  current_row goes up by one at each step whose test holds, and
\* the tests hold together or from some step on fail together, so step k
\* reads row start_row + k.
CifSteps(sh, start_row) ==
    LET end_row == start_row + CifWindow
        d == ConstructionInterestFees
    IN  [construction_loan_interest |->
               ReadB(sh, start_row + 1, end_row, d.construction_loan_interest),
         origination_fee |-> ReadB(sh, start_row + 2, end_row, d.origination_fee),
         credit_enhancement_fee |->
               ReadB(sh, start_row + 3, end_row, d.credit_enhancement_fee),
         bond_premium |-> ReadB(sh, start_row + 4, end_row, d.bond_premium),
         cost_of_issuance |-> ReadB(sh, start_row + 5, end_row, d.cost_of_issuance),
         title_recording |-> ReadB(sh, start_row + 6, end_row, d.title_recording),
         taxes |-> ReadB(sh, start_row + 7, end_row, d.taxes),
         insurance |-> ReadB(sh, start_row + 8, end_row, d.insurance),
         other_amount |-> ReadB(sh, start_row + 9, end_row, d.other_amount),
         other_description |->
               IF start_row + 9 <= end_row THEN LabelText(sh, start_row + 9)
               ELSE d.other_description,
         total |-> ReadB(sh, start_row + 10, end_row, d.total)]

\* ExtractConstructionInterestFees reading from the top of the sheet when the
\* header is not found.
ExtractConstructionInterestFeesFromTop(sh) ==
    LET section_pos == FindCellByText(sh, Hdr_construction, FALSE)
    IN  IF IsNone(section_pos) THEN CifSteps(sh, 0)
        ELSE CifSteps(sh, Val(section_pos)[1])

\* extract_construction_interest_fees
ExtractConstructionInterestFees(sh) ==
    LET section_pos == FindCellByText(sh, Hdr_construction, FALSE)
    IN  IF IsNone(section_pos) THEN ConstructionInterestFees
        ELSE CifSteps(sh, Val(section_pos)[1])

\* extract_permanent_financing, step k reading row start_row + k.
ExtractPermanentFinancing(sh) ==
    LET section_pos == FindCellByText(sh, Hdr_permanent, FALSE)
    IN  IF IsNone(section_pos) THEN PermanentFinancing
        ELSE LET start_row == Val(section_pos)[1]
                 end_row == start_row + PfWindow
                 d == PermanentFinancing
             IN  [loan_origination_fee |->
                        ReadB(sh, start_row + 1, end_row, d.loan_origination_fee),
                  credit_enhancement_fee |->
                        ReadB(sh, start_row + 2, end_row, d.credit_enhancement_fee),
                  title_recording |-> ReadB(sh, start_row + 3, end_row, d.title_recording),
                  taxes |-> ReadB(sh, start_row + 4, end_row, d.taxes),
                  insurance |-> ReadB(sh, start_row + 5, end_row, d.insurance),
                  other_amount |-> ReadB(sh, start_row + 6, end_row, d.other_amount),
                  other_description |->
                        IF start_row + 6 <= end_row THEN LabelText(sh, start_row + 6)
                        ELSE d.other_description,
                  total |-> ReadB(sh, start_row + 7, end_row, d.total)]

\* The rows extract_new_construction_total reads: rows below 100 of the
\* sheet (line 257), then 19 rows below a heading (line 268).
NctRowLimit == 100
NctWindow == 20

Min(a, b) == IF a < b THEN a ELSE b

\* Lines 257-262, from row on.
RECURSIVE NctDirect(_, _)
NctDirect(sh, row) ==
    IF row >= Min(MaxRow(sh) + 1, NctRowLimit) THEN NoneV
    ELSE LET cell_value == Lower(IF CellTruthy(CellValue(sh, row, 1))
                                 THEN PyStr(CellValue(sh, row, 1)) ELSE <<>>)
             value == ExtractNumberFromCell(sh, row, 2)
         IN  IF Contains(cell_value, Txt_total_new_construction_costs) /\ value > 0
             THEN Some(value)
             ELSE NctDirect(sh, row + 1)

\* Lines 268-274, from row_offset on.
RECURSIVE NctBelow(_, _, _)
NctBelow(sh, start, row_offset) ==
    IF row_offset >= NctWindow THEN NoneV
    ELSE LET row == start + row_offset
             cell_value == Lower(IF CellTruthy(CellValue(sh, row, 1))
                                 THEN PyStr(CellValue(sh, row, 1)) ELSE <<>>)
             value == ExtractNumberFromCell(sh, row, 2)
         IN  IF Contains(cell_value, Txt_total) /\ Contains(cell_value, Txt_construction)
                /\ value > 0
             THEN Some(value)
             ELSE NctBelow(sh, start, row_offset + 1)

ExtractNewConstructionTotal(sh) ==
    LET direct == NctDirect(sh, 1)
    IN  IF ~IsNone(direct) THEN direct
        ELSE LET new_const_pos == FindCellByText(sh, Hdr_new_construction, FALSE)
             IN  IF IsNone(new_const_pos) THEN NoneV
                 ELSE NctBelow(sh, Val(new_const_pos)[1], 1)

\* Lines 292 and 294: columns D and G hold labels, AG and L values.
label_columns == <<4, 7>>
value_columns == <<33, 12>>

\* FirstPositive trying column L before column AG.
FirstPositiveLFirst(sh, row) ==
    IF ExtractNumberFromCell(sh, row, value_columns[2]) > 0
    THEN Some(ExtractNumberFromCell(sh, row, value_columns[2]))
    ELSE IF ExtractNumberFromCell(sh, row, value_columns[1]) > 0
    THEN Some(ExtractNumberFromCell(sh, row, value_columns[1]))
    ELSE NoneV

\* The first positive value of the row in AG, then L (lines 309-315).
FirstPositive(sh, row) ==
    IF ExtractNumberFromCell(sh, row, value_columns[1]) > 0
    THEN Some(ExtractNumberFromCell(sh, row, value_columns[1]))
    ELSE IF ExtractNumberFromCell(sh, row, value_columns[2]) > 0
    THEN Some(ExtractNumberFromCell(sh, row, value_columns[2]))
    ELSE NoneV

\* Whether the cell's label asks for the unit count (lines 303-307).
IsUnitsLabel(x) ==
    /\ CellTruthy(x)
    /\ Contains(Lower(PyStr(x)), Txt_total_number_of_units)
    /\ ~Contains(Lower(PyStr(x)), Txt_excluding_managers)

\* Whether the cell's label asks for the square footage (lines 325-330).
IsSfLabel(x) ==
    CellTruthy(x) /\ Contains(Lower(PyStr(x)), Txt_total_square_footage)

\* The label test of the loop for the unit count or the square footage.
IsLabel(metric, x) == IF metric = "units" THEN IsUnitsLabel(x) ELSE IsSfLabel(x)

\* The loops of lines 301-319 and 323-340, from row and label column k on:
\* the value of the first label cell, rows first, whose row holds a positive
\* value.
RECURSIVE MetricScan(_, _, _, _)
MetricScan(sh, metric, row, k) ==
    IF row > MaxRow(sh) THEN NoneV
    ELSE IF k > Len(label_columns) THEN MetricScan(sh, metric, row + 1, 1)
    ELSE IF IsLabel(metric, CellValue(sh, row, label_columns[k]))
            /\ ~IsNone(FirstPositive(sh, row))
    THEN FirstPositive(sh, row)
    ELSE MetricScan(sh, metric, row, k + 1)

\* int(x) of a positive amount: the whole units in it.
PyInt(v) == v \div Unit

\* extract_units_and_sf: the unit count (in units) and the square footage.
ExtractUnitsAndSf(sh) ==
    IF IsNone(sh) THEN <<NoneV, NoneV>>
    ELSE LET u == MetricScan(Val(sh), "units", 1, 1)
             f == MetricScan(Val(sh), "sf", 1, 1)
         IN  <<IF IsNone(u) THEN NoneV ELSE Some(PyInt(Val(u))), f>>

\* Path(file_path).stem: the file name without its last suffix.
Stem(path) ==
    LET n == path.name
    IN  IF Len(n) > 1 /\ n[Len(n)] \in {".xlsx", ".xls", ".XLSX", ".XLS"}
        THEN SubSeq(n, 1, Len(n) - 1)
        ELSE n

---------------------------------------------------------------------------
(* parse() on one file.  <<"w", "b">> is what the file at the parser's path holds; *)
(* <<"s", "e", "l", "f">> is the ExcelParser, <<"a", "p", "p", "_", "d", "a", "t", "a">> the record parse() is filling in, *)
(* <<"p", "p", "c">> the statement parse() is at.                                      *)

\* ExcelParser(file_path)
ExcelParser(file_path) ==
    [file_path |-> file_path, wb |-> NoneV,
     sources_uses_sheet |-> NoneV, application_sheet |-> NoneV]

\* self.sources_uses_sheet and self.application_sheet as sheets
SourcesUsesSheet == wb.sheets[Val(self.sources_uses_sheet)]
ApplicationSheet ==
    IF IsNone(self.application_sheet) THEN NoneV
    ELSE Some(wb.sheets[Val(self.application_sheet)])

\* Lines 346-350.
ParseLoad ==
    /\ ppc = "load"
    /\ LET r == LoadWorkbook(self, wb)
       IN  /\ self' = r.self
           /\ IF IsNone(r.exc)
              THEN /\ ppc' = "construction_interest_fees"
                   /\ app_data' = [ApplicationData EXCEPT
                                     !.file_path = self.file_path,
                                     !.application_name = Stem(self.file_path)]
              ELSE /\ ppc' = "raised"
                   /\ app_data' = Raised(Val(r.exc))
    /\ UNCHANGED <<wb, notParse>>

\* Line 353.
ParseConstructionInterestFees ==
    /\ ppc = "construction_interest_fees"
    /\ app_data' = [app_data EXCEPT !.construction_interest_fees =
                        ExtractConstructionInterestFees(SourcesUsesSheet)]
    /\ ppc' = "permanent_financing"
    /\ UNCHANGED <<wb, self, notParse>>

\* Line 354.
ParsePermanentFinancing ==
    /\ ppc = "permanent_financing"
    /\ app_data' = [app_data EXCEPT !.permanent_financing =
                        ExtractPermanentFinancing(SourcesUsesSheet)]
    /\ ppc' = "new_construction_total"
    /\ UNCHANGED <<wb, self, notParse>>

\* Line 357.
ParseNewConstructionTotal ==
    /\ ppc = "new_construction_total"
    /\ app_data' = [app_data EXCEPT !.new_construction_total =
                        ExtractNewConstructionTotal(SourcesUsesSheet)]
    /\ ppc' = "units_and_sf"
    /\ UNCHANGED <<wb, self, notParse>>

\* Line 358.
ParseUnitsAndSf ==
    /\ ppc = "units_and_sf"
    /\ LET r == ExtractUnitsAndSf(ApplicationSheet)
       IN  app_data' = [app_data EXCEPT !.total_units = r[1],
                                        !.total_square_feet = r[2]]
    /\ ppc' = "validate"
    /\ UNCHANGED <<wb, self, notParse>>

\* Lines 361-363: parse() returns app_data.
ParseValidate ==
    /\ ppc = "validate"
    /\ app_data' = Validate(app_data)
    /\ ppc' = "returned"
    /\ UNCHANGED <<wb, self, notParse>>

ParseStep ==
    \/ ParseLoad
    \/ ParseConstructionInterestFees
    \/ ParsePermanentFinancing
    \/ ParseNewConstructionTotal
    \/ ParseUnitsAndSf
    \/ ParseValidate

---------------------------------------------------------------------------
(* The workbooks parse() is run on.  A sources/uses sheet is some rows of  *)
(* other matter, then the construction section, then the permanent         *)
(* financing section, either of which may be missing.  Of a section some  *)
(* of the amounts are filled in, the rest left blank or zero, and the      *)
(* total is the sum or off by one unit.                                    *)

\* The most rows above the first section.
MaxPre == 2

\* A sheet of rows given as sequences of cell values, from column A on.
SheetOf(title, rows) ==
    [title |-> title,
     cells |-> [rc \in UNION {{<<r, c>> : c \in 1..Len(rows[r])} : r \in 1..Len(rows)}
                  |-> rows[rc[1]][rc[2]]]]

RECURSIVE SumOver(_, _)
SumOver(S, f) ==
    IF S = {} THEN 0
    ELSE LET k == CHOOSE x \in S : TRUE IN f[k] + SumOver(S \ {k}, f)

\* The k-th row above the sections.
PreRow(k) ==
    CASE k = 1 -> <<Str(<<"N", "E", "W", " ", "C", "O", "N", "S", "T", "R", "U", "C", "T", "I", "O", "N">>), Empty>>
      [] k = 2 -> <<Str(<<"T", "o", "t", "a", "l", " ", "N", "e", "w", " ", "C", "o", "n", "s", "t", "r", "u", "c", "t", "i", "o", "n", " ", "C", "o", "s", "t", "s">>), Num(900 * Unit)>>
      [] OTHER -> <<Str(<<"L", "a", "n", "d", " ", "C", "o", "s", "t">>), Str(<<"$", "5", "0", ",", "0", "0", "0", ".", "0", "0">>)>>
PreRows(n) == [k \in 1..n |-> PreRow(k)]

\* Construction section: the labels, the amounts when filled in, the values
\* of those, and the cells when not filled in.
CifLabels ==
    <<<<"C", "o", "n", "s", "t", "r", "u", "c", "t", "i", "o", "n", " ", "L", "o", "a", "n", " ", "I", "n", "t", "e", "r", "e", "s", "t">>, <<"O", "r", "i", "g", "i", "n", "a", "t", "i", "o", "n", " ", "F", "e", "e">>, <<"C", "r", "e", "d", "i", "t", " ", "E", "n", "h", "a", "n", "c", "e", "m", "e", "n", "t", " ", "F", "e", "e">>,
      <<"B", "o", "n", "d", " ", "P", "r", "e", "m", "i", "u", "m">>, <<"C", "o", "s", "t", " ", "o", "f", " ", "I", "s", "s", "u", "a", "n", "c", "e">>, <<"T", "i", "t", "l", "e", " ", "&", " ", "R", "e", "c", "o", "r", "d", "i", "n", "g">>, <<"T", "a", "x", "e", "s">>,
      <<"I", "n", "s", "u", "r", "a", "n", "c", "e">>, <<" ", " ", "O", "t", "h", "e", "r", ":", " ", "(", "L", "e", "g", "a", "l", ")", " ">>>>
CifFilled ==
    <<Num(100000 * Unit), Num(5000 * Unit), Num(4 * Unit), Num(8 * Unit),
      Num(16 * Unit + 500), Num(32 * Unit), Str(<<"$", "1", ",", "2", "3", "4", ".", "5", "6">>), Num(64 * Unit),
      Num(128 * Unit)>>
CifAmount == [k \in 1..9 |-> NumberOf(CifFilled[k])]
CifBlank == [k \in 1..9 |-> IF k % 2 = 0 THEN Num(0) ELSE Empty]

\* The header row with the header text in column hc.
CifHeaderRow(hc) ==
    IF hc = 1 THEN <<Str(<<"C", "O", "N", "S", "T", "R", "U", "C", "T", "I", "O", "N", " ", "I", "N", "T", "E", "R", "E", "S", "T", " ", "&", " ", "F", "E", "E", "S">>)>>
    ELSE <<Str(<<"V", "I", ".">>), Empty, Str(<<"C", "o", "n", "s", "t", "r", "u", "c", "t", "i", "o", "n", " ", "I", "n", "t", "e", "r", "e", "s", "t", " ", "&", " ", "F", "e", "e", "s", ":">>)>>

CifSection(hc, filled, total) ==
    <<CifHeaderRow(hc)>>
    \o [k \in 1..9 |-> <<Str(CifLabels[k]),
                          IF k \in filled THEN CifFilled[k] ELSE CifBlank[k]>>]
    \o <<<<Str(<<"T", "o", "t", "a", "l", " ", "C", "o", "n", "s", "t", "r", "u", "c", "t", "i", "o", "n", " ", "I", "n", "t", "e", "r", "e", "s", "t", " ", "&", " ", "F", "e", "e", "s">>), Num(total)>>>>

PfLabels ==
    <<<<"L", "o", "a", "n", " ", "O", "r", "i", "g", "i", "n", "a", "t", "i", "o", "n", " ", "F", "e", "e">>, <<"C", "r", "e", "d", "i", "t", " ", "E", "n", "h", "/", "A", "p", "p", "l", ".", " ", "F", "e", "e">>, <<"T", "i", "t", "l", "e", " ", "&", " ", "R", "e", "c", "o", "r", "d", "i", "n", "g">>,
      <<"T", "a", "x", "e", "s">>, <<"I", "n", "s", "u", "r", "a", "n", "c", "e">>, <<"O", "t", "h", "e", "r">>>>
PfFilled ==
    <<Num(2000 * Unit), Num(3 * Unit), Str(<<"1", ",", "5", "0", "0">>), Num(7 * Unit),
      Num(250), Num(11 * Unit)>>
PfAmount == [k \in 1..6 |-> NumberOf(PfFilled[k])]

PfSection(filled, total) ==
    <<<<Str(<<"P", "E", "R", "M", "A", "N", "E", "N", "T", " ", "F", "I", "N", "A", "N", "C", "I", "N", "G">>)>>>>
    \o [k \in 1..6 |-> <<Str(PfLabels[k]),
                          IF k \in filled THEN PfFilled[k] ELSE Empty>>]
    \o <<<<Str(<<"T", "o", "t", "a", "l", " ", "P", "e", "r", "m", "a", "n", "e", "n", "t", " ", "F", "i", "n", "a", "n", "c", "i", "n", "g", " ", "C", "o", "s", "t", "s">>), Num(total)>>>>

\* The sections of a sheet: one of the two is there alone in every filling,
\* or both are there in a few.
FewFillings == {{}, {1, 2}, 1..9}
CifSections(hcs, fillings) ==
    {CifSection(hc, f, SumOver(f, CifAmount) + off) :
        hc \in hcs, f \in fillings, off \in {0, Unit}}
PfSections(fillings) ==
    {PfSection(f, SumOver(f, PfAmount) + off) : f \in fillings, off \in {0, Unit}}
SectionPairs ==
    {<<c, <<>>>> : c \in CifSections({1}, SUBSET (1..9)) \cup CifSections({3}, FewFillings)}
    \cup {<<<<>>, p>> : p \in PfSections(SUBSET (1..6))}
    \cup (CifSections({1, 3}, FewFillings) \X PfSections({{}, {1, 3}}))
    \cup {<<<<>>, <<>>>>}

SourcesTitle == <<"S", "o", "u", "r", "c", "e", "s", " ", "a", "n", "d", " ", "U", "s", "e", "s", " ", "B", "u", "d", "g", "e", "t">>
SourcesSheets ==
    {SheetOf(SourcesTitle, PreRows(n) \o p[1] \o p[2]) :
        n \in 0..MaxPre, p \in SectionPairs}

\* Application sheets: labels in columns D and G, values in AG and L.
ApplicationTitle == <<"A", "p", "p", "l", "i", "c", "a", "t", "i", "o", "n">>
ApplicationSheets ==
    {[title |-> ApplicationTitle,
      cells |-> (<<1, 4>> :> Str(<<"T", "o", "t", "a", "l", " ", "n", "u", "m", "b", "e", "r", " ", "o", "f", " ", "u", "n", "i", "t", "s", " ", "(", "e", "x", "c", "l", "u", "d", "i", "n", "g", " ", "m", "a", "n", "a", "g", "e", "r", "s", "'", " ", "u", "n", "i", "t", "s", ")">>))
                @@ (<<1, 33>> :> Num(39 * Unit))
                @@ (<<2, 4>> :> Str(<<"T", "o", "t", "a", "l", " ", "n", "u", "m", "b", "e", "r", " ", "o", "f", " ", "u", "n", "i", "t", "s">>))
                @@ (<<2, 33>> :> Num(40 * Unit))
                @@ (<<3, 7>> :> Str(<<"T", "o", "t", "a", "l", " ", "s", "q", "u", "a", "r", "e", " ", "f", "o", "o", "t", "a", "g", "e", " ", "o", "f", " ", "a", "l", "l", " ", "p", "r", "o", "j", "e", "c", "t", " ", "s", "t", "r", "u", "c", "t", "u", "r", "e", "s">>))
                @@ (<<3, 12>> :> Num(35000 * Unit + 500))],
     [title |-> ApplicationTitle,
      cells |-> (<<1, 4>> :> Str(<<"P", "r", "o", "j", "e", "c", "t", " ", "n", "a", "m", "e">>))
                @@ (<<2, 7>> :> Str(<<"T", "O", "T", "A", "L", " ", "N", "U", "M", "B", "E", "R", " ", "O", "F", " ", "U", "N", "I", "T", "S", ":">>))
                @@ (<<2, 12>> :> Str(<<"4", "0", ".", "5">>))]}

Workbook(sheets) == [t |-> "workbook", sheets |-> sheets]
Corrupt == [t |-> "corrupt"]

\* Workbooks with a sources/uses sheet, and for the sheets of a few rows
\* the application sheet after it.
GoodWorkbooks ==
    {Workbook(<<s>>) : s \in SourcesSheets}
    \cup {Workbook(<<s, a>>) :
            s \in {x \in SourcesSheets : MaxRow(x) <= MaxPre}, a \in ApplicationSheets}

\* Workbooks that do not load, and one with two sheets named for sources
\* and uses around two named "application".
OddWorkbooks ==
    LET notes == SheetOf(<<"N", "o", "t", "e", "s">>, <<<<Str(<<"C", "O", "N", "S", "T", "R", "U", "C", "T", "I", "O", "N", " ", "I", "N", "T", "E", "R", "E", "S", "T", " ", "&", " ", "F", "E", "E", "S">>)>>>>)
        app1 == CHOOSE a \in ApplicationSheets : <<2, 33>> \in DOMAIN a.cells
        app2 == CHOOSE a \in ApplicationSheets : <<2, 33>> \notin DOMAIN a.cells
        first == SheetOf(<<"S", "O", "U", "R", "C", "E", "S", " ", "&", " ", "U", "S", "E", "S">>, CifSection(1, {1, 2}, 105000 * Unit))
        last == SheetOf(<<"U", "s", "e", "s", " ", "a", "n", "d", " ", "s", "o", "u", "r", "c", "e", "s", " ", "(", "r", "e", "v", ".", ")">>, PfSection({1}, PfAmount[1]))
    IN  {Corrupt, Workbook(<<>>), Workbook(<<notes, app1>>),
         Workbook(<<first, app1, app2, last>>)}

\* Workbooks whose construction section breaks off after n rows, the sheet
\* ending there or going on with the permanent financing section.
ShortWorkbooks ==
    LET full == CifSection(1, 1..9, SumOver(1..9, CifAmount))
        next == PfSection(1..6, SumOver(1..6, PfAmount))
    IN  {Workbook(<<SheetOf(SourcesTitle, SubSeq(full, 1, n) \o p)>>) :
            n \in {1, 4, 10}, p \in {<<>>, next}}

ParsePath == FilePath(<<"24-406", ".xlsx">>)

InitParse ==
    /\ wb \in GoodWorkbooks \cup OddWorkbooks \cup ShortWorkbooks
    /\ self = ExcelParser(ParsePath)
    /\ ppc = "load"
    /\ app_data = NoneV
    /\ ret = NoCall
    /\ IdleCost /\ IdleApp /\ IdleDl /\ IdleHelper /\ IdleMain

NextParse == ParseStep

SpecParse == InitParse /\ [][NextParse]_vars


\* Whether some cell of the sheet contains the text, whatever the case of
\* the letters.
C7_HasText(sh, text) ==
    \E rc \in DOMAIN sh.cells : Contains(Lower(PyStr(sh.cells[rc])), Lower(text))

C7_AllZero(section, fields) ==
    /\ \A f \in fields : section[f] = 0
    /\ section.total = 0
    /\ section.other_description = <<>>

\* The statements of parse() past each extraction.
C7_PastConstruction ==
    {"permanent_financing", "new_construction_total", "units_and_sf", "validate",
     "returned"}
C7_PastPermanent == C7_PastConstruction \ {"permanent_financing"}

\* C7: when no cell of the primary sheet contains the header text of a
\* section, the extraction of that section returns a record whose amounts
\* and total are all 0 and whose other-description is empty, and raises
\* nothing: parse() raises only out of load_workbook, finding no sheet.
C7_MissingHeaderGivesZeros ==
    /\ (ppc \in C7_PastConstruction
        /\ ~C7_HasText(SourcesUsesSheet, Hdr_construction))
       => C7_AllZero(app_data.construction_interest_fees, CifFields)
    /\ (ppc \in C7_PastPermanent
        /\ ~C7_HasText(SourcesUsesSheet, Hdr_permanent))
       => C7_AllZero(app_data.permanent_financing, PfFields)
    /\ ppc = "raised" => IsNone(self.sources_uses_sheet)
    /\ ppc \in C7_PastConstruction => app_data.cls = "ApplicationData"

\* A sheet without the construction header, with amounts in column B that
\* the other section picked up, has been parsed.
C7_Witness ==
    /\ ppc = "returned"
    /\ ~C7_HasText(SourcesUsesSheet, Hdr_construction)
    /\ C7_HasText(SourcesUsesSheet, Hdr_permanent)
    /\ app_data.permanent_financing.total > 0
    /\ C7_AllZero(app_data.construction_interest_fees, CifFields)

\* The row of the first cell containing the construction header.
C9_HeaderRow(sh) ==
    LET rows == {rc[1] : rc \in {x \in DOMAIN sh.cells :
                    Contains(Lower(PyStr(sh.cells[x])), Lower(Hdr_construction))}}
    IN  CHOOSE r \in rows : \A o \in rows : r <= o

\* The amount in column B, k rows below the header.
C9_Amount(sh, k) == NumberOf(CellValue(sh, C9_HeaderRow(sh) + k, 2))

\* The sheet holds the construction section in the fixed row order (nine
\* amounts, then the total, in column B under the header), its total the sum
\* of its amounts, and holds no permanent financing header.
C9_Laid(sh) ==
    /\ C7_HasText(sh, Hdr_construction)
    /\ ~C7_HasText(sh, Hdr_permanent)
    /\ C9_Amount(sh, 10) = SumOver(1..9, [k \in 1..9 |-> C9_Amount(sh, k)])

\* C9: parse() of a workbook whose sources/uses sheet holds the construction
\* section in the fixed row order, its total row the sum of its line items,
\* and no permanent financing section, returns a record with no validation
\* error whose combined financing cost is the construction total.
C9_ParseConstructionOnly ==
    (ppc = "returned" /\ C9_Laid(SourcesUsesSheet))
    => /\ app_data.validation_errors = <<>>
       /\ GetCombinedFinancingCosts(app_data) = C9_Amount(SourcesUsesSheet, 10)
       /\ app_data.construction_interest_fees.total = C9_Amount(SourcesUsesSheet, 10)

\* The documented workbook has been parsed: loan interest 100000,
\* origination fee 5000, the others 0, total 105000.
C9_Witness ==
    /\ ppc = "returned"
    /\ C9_Laid(SourcesUsesSheet)
    /\ C9_Amount(SourcesUsesSheet, 1) = 100000 * Unit
    /\ C9_Amount(SourcesUsesSheet, 2) = 5000 * Unit
    /\ \A k \in 3..9 : C9_Amount(SourcesUsesSheet, k) = 0
    /\ app_data.construction_interest_fees.construction_loan_interest = 100000 * Unit
    /\ app_data.construction_interest_fees.origination_fee = 5000 * Unit
    /\ GetCombinedFinancingCosts(app_data) = 105000 * Unit
    /\ app_data.validation_errors = <<>>

---------------------------------------------------------------------------
(* main.py, with find_excel_files_in_directory and generate_summary_report. *)
(*                                                                         *)
(* download_excel_files is taken by what it hands back: a list of distinct *)
(* paths in the directory, each of a file that is there when it returns.   *)
(* The console is taken to accept what main prints.                        *)

\* The most files a run of main deals with.
MaxFiles == 2

\* The workbooks a file can hold.
MainBooks ==
    {Workbook(<<SheetOf(SourcesTitle, CifSection(1, {1, 2}, 105000 * Unit))>>),
     Workbook(<<SheetOf(SourcesTitle, PfSection({1}, 0))>>),
     Workbook(<<SheetOf(<<"N", "o", "t", "e", "s">>, <<>>)>>),
     Corrupt}

\* The file names of the directory: two that the listing page links and one
\* whose extension is in capitals.
MainNames == DiskFiles \cup {<<"c", ".XLSX">>}

\* The directories a run can start with.
MainDirs ==
    {NoneV} \cup
    {Some(d) : d \in UNION {[names -> MainBooks] :
                  names \in {x \in SUBSET MainNames : Cardinality(x) <= MaxFiles}}}

\* The lists without repetition of all of S.
Orderings(S) ==
    {q \in [1..Cardinality(S) -> S] : \A i, j \in 1..Cardinality(S) : q[i] = q[j] => i = j}

\* Line 18.
skip_download == "--skip-download" \in argv \/ "--no-download" \in argv

\* What is in the directory, as a function of the file names.
DirFiles == IF IsNone(mdir) THEN <<>> ELSE Val(mdir)

\* find_excel_files_in_directory(): the lists it can return, in whatever
\* order os.listdir gives the names.
FindExcelFilesInDirectory ==
    IF IsNone(mdir) THEN {<<>>}
    ELSE {[i \in DOMAIN q |-> FilePath(q[i])] :
            q \in Orderings({f \in DOMAIN DirFiles : EndsWithExt(f)})}

\* '; '.join(q)
RECURSIVE Join(_)
Join(q) ==
    IF q = <<>> THEN <<>>
    ELSE IF Len(q) = 1 THEN <<q[1]>>
    ELSE <<q[1], "; ">> \o Join(Tail(q))

\* The row of one application (lines 17-53); each cost section stands for
\* its columns.
Row(a) ==
    [Application_Name |-> a.application_name,
     Construction_Interest_Fees |-> a.construction_interest_fees,
     Permanent_Financing |-> a.permanent_financing,
     Combined_Financing_Costs |-> GetCombinedFinancingCosts(a),
     Total_Units |-> a.total_units,
     Total_Square_Feet |-> a.total_square_feet,
     New_Construction_Total |-> a.new_construction_total,
     Financing_Costs_per_Unit |-> GetFinancingCostsPerUnit(a),
     Financing_Costs_per_SF |-> GetFinancingCostsPerSf(a),
     Financing_Costs_Pct_of_Hard_Costs |-> GetFinancingCostsPctHardCosts(a),
     Validation_Errors |-> Join(a.validation_errors),
     Validation_Warnings |-> Join(a.validation_warnings)]

\* generate_summary_report: the rows of the sheet "Summary".
GenerateSummaryReport(apps) == [i \in 1..Len(apps) |-> Row(apps[i])]

InitMain ==
    /\ argv \in SUBSET {"--skip-download", "--no-download"}
    /\ mdir \in MainDirs
    /\ mpc = "start"
    /\ m_files = <<>>
    /\ fi = 0
    /\ applications = <<>>
    /\ trace = <<>>
    /\ report = NoneV
    /\ ret = NoCall
    /\ IdleCost /\ IdleApp /\ IdleDl /\ IdleHelper /\ IdleParse

\* Lines 18-22 with a flag given: nothing is downloaded.
MSkipDownload ==
    /\ mpc = "start"
    /\ skip_download
    /\ mpc' = "fallback"
    /\ UNCHANGED <<argv, mdir, m_files, fi, applications, trace, report, notMain>>

\* Lines 22-24: download_excel_files(url) makes the directory and returns
\* the paths of some files, those not yet there now written.
MDownload ==
    /\ mpc = "start"
    /\ ~skip_download
    /\ \E names \in SUBSET MainNames :
        /\ Cardinality(names) <= MaxFiles
        /\ \A f \in names : EndsWithExt(f)
        /\ \E q \in Orderings(names) :
            m_files' = [i \in DOMAIN q |-> FilePath(q[i])]
        /\ \E written \in [names \ DOMAIN DirFiles -> MainBooks] :
            mdir' = Some([f \in DOMAIN DirFiles \cup names |->
                            IF f \in DOMAIN DirFiles THEN DirFiles[f] ELSE written[f]])
    /\ trace' = Append(trace, [e |-> "download", returned |-> m_files'])
    /\ mpc' = "fallback"
    /\ UNCHANGED <<argv, fi, applications, report, notMain>>

\* MKeepFiles scanning the directory all the same.
MKeepFilesScans ==
    /\ mpc = "fallback"
    /\ m_files # <<>>
    /\ trace' = Append(trace, [e |-> "scan", returned |-> m_files])
    /\ mpc' = "check"
    /\ UNCHANGED <<argv, mdir, m_files, fi, applications, report, notMain>>

\* Line 27 with files at hand.
MKeepFiles ==
    /\ mpc = "fallback"
    /\ m_files # <<>>
    /\ mpc' = "check"
    /\ UNCHANGED <<argv, mdir, m_files, fi, applications, trace, report, notMain>>

\* Lines 27-29: no file at hand, the directory is scanned.
MFallback ==
    /\ mpc = "fallback"
    /\ m_files = <<>>
    /\ m_files' \in FindExcelFilesInDirectory
    /\ trace' = Append(trace, [e |-> "scan", returned |-> m_files'])
    /\ mpc' = "check"
    /\ UNCHANGED <<argv, mdir, fi, applications, report, notMain>>

\* Lines 31-36: still no file; the guidance is printed and main returns.
MGuidance ==
    /\ mpc = "check"
    /\ m_files = <<>>
    /\ trace' = Append(trace, [e |-> "guidance"])
    /\ mpc' = "done"
    /\ UNCHANGED <<argv, mdir, m_files, fi, applications, report, notMain>>

\* Lines 38-39.
MStartParsing ==
    /\ mpc = "check"
    /\ m_files # <<>>
    /\ applications' = <<>>
    /\ fi' = 1
    /\ mpc' = "loop"
    /\ UNCHANGED <<argv, mdir, m_files, trace, report, notMain>>

\* Lines 41-45: the parser of the next file is made and parse() is called.
MParseFile ==
    /\ mpc = "loop" /\ fi <= Len(m_files)
    /\ self' = ExcelParser(m_files[fi])
    /\ wb' = IF m_files[fi].name \in DOMAIN DirFiles THEN DirFiles[m_files[fi].name]
             ELSE Corrupt
    /\ ppc' = "load"
    /\ app_data' = NoneV
    /\ trace' = Append(trace, [e |-> "parse", file |-> m_files[fi]])
    /\ mpc' = "parse"
    /\ UNCHANGED <<argv, mdir, m_files, fi, applications, report>>
    /\ UNCHANGED <<costVars, appVars, dlVars, helperVars, ret>>

\* Lines 45-52: parse() returned; its record is appended.
MAppend ==
    /\ mpc = "parse" /\ ppc = "returned"
    /\ applications' = Append(applications, app_data)
    /\ fi' = fi + 1
    /\ mpc' = "loop"
    /\ wb' = NoneV /\ ppc' = "idle" /\ self' = NoneV /\ app_data' = NoneV
    /\ UNCHANGED <<argv, mdir, m_files, trace, report>>
    /\ UNCHANGED <<costVars, appVars, dlVars, helperVars, ret>>

\* MSkipFile leaving the loop.
MSkipFileAndRest ==
    /\ mpc = "parse" /\ ppc = "raised"
    /\ trace' = Append(trace, [e |-> "error", file |-> m_files[fi]])
    /\ fi' = Len(m_files) + 1
    /\ mpc' = "loop"
    /\ wb' = NoneV /\ ppc' = "idle" /\ self' = NoneV /\ app_data' = NoneV
    /\ UNCHANGED <<argv, mdir, m_files, applications, report>>
    /\ UNCHANGED <<costVars, appVars, dlVars, helperVars, ret>>

\* Lines 53-54: parse() raised; the error is printed and the loop goes on.
MSkipFile ==
    /\ mpc = "parse" /\ ppc = "raised"
    /\ trace' = Append(trace, [e |-> "error", file |-> m_files[fi]])
    /\ fi' = fi + 1
    /\ mpc' = "loop"
    /\ wb' = NoneV /\ ppc' = "idle" /\ self' = NoneV /\ app_data' = NoneV
    /\ UNCHANGED <<argv, mdir, m_files, applications, report>>
    /\ UNCHANGED <<costVars, appVars, dlVars, helperVars, ret>>

\* The applications without validation errors (line 64).
valid_apps == SelectSeq(applications, LAMBDA a : a.validation_errors = <<>>)

\* Lines 56-96: the report is written, then the statistics are printed.
MReport ==
    /\ mpc = "loop" /\ fi > Len(m_files)
    /\ report' = Some(GenerateSummaryReport(applications))
    /\ trace' = trace \o <<[e |-> "report", rows |-> Len(applications)],
                           [e |-> "statistics", parsed |-> Len(applications),
                            valid |-> Len(valid_apps)]>>
    /\ mpc' = "done"
    /\ UNCHANGED <<argv, mdir, m_files, fi, applications, notMain>>

NextMain ==
    \/ MSkipDownload
    \/ MDownload
    \/ MKeepFiles
    \/ MFallback
    \/ MGuidance
    \/ MStartParsing
    \/ MParseFile
    \/ ParseStep
    \/ MAppend
    \/ MSkipFile
    \/ MReport

SpecMain == InitMain /\ [][NextMain]_vars


\* The events of the run of one kind, in order.
C5_Events(kind) == SelectSeq(trace, LAMBDA x : x.e = kind)

\* The file holds a workbook openpyxl loads, with a sheet whose name has
\* "sources" and "uses" in it: parse() of it does not raise.
C5_Parses(path) ==
    /\ path.name \in DOMAIN DirFiles
    /\ LET book == DirFiles[path.name]
       IN  /\ book.t = "workbook"
           /\ \E i \in 1..Len(book.sheets) :
                /\ Contains(Lower(book.sheets[i].title), <<"s", "o", "u", "r", "c", "e", "s">>)
                /\ Contains(Lower(book.sheets[i].title), <<"u", "s", "e", "s">>)

\* The files the loop is past.
C5_Handled == SubSeq(m_files, 1, fi - 1)

\* C5: in main, a file whose parse raises is skipped and every later file is
\* still parsed; the list handed to generate_summary_report holds exactly one
\* record per file whose parse succeeded, in the order of the input list, and
\* the summary has one row per such record.
C5_OneRecordPerParsedFile ==
    /\ mpc \in {"loop", "parse", "done"} /\ fi > 0 =>
        /\ [i \in 1..Len(applications) |-> applications[i].file_path]
             = SelectSeq(C5_Handled, C5_Parses)
        /\ [i \in 1..Len(C5_Events("parse")) |-> C5_Events("parse")[i].file]
             = SubSeq(m_files, 1, IF mpc = "parse" THEN fi ELSE fi - 1)
    /\ ~IsNone(report) =>
        /\ C5_Handled = m_files
        /\ Len(Val(report)) = Len(SelectSeq(m_files, C5_Parses))
        /\ \A i \in 1..Len(Val(report)) :
             Val(report)[i] = Row(applications[i])
             /\ Val(report)[i].Application_Name = Stem(applications[i].file_path)

\* The report is written after a file whose parse raised and, after it, a
\* file whose parse succeeded.
C5_Witness ==
    /\ ~IsNone(report)
    /\ Len(m_files) = 2
    /\ ~C5_Parses(m_files[1]) /\ C5_Parses(m_files[2])
    /\ Len(Val(report)) = 1
    /\ applications[1].file_path = m_files[2]

\* The download phase returned no file, or a flag suppressed it.
C6_NothingDownloaded ==
    \/ skip_download
    \/ \E i \in 1..Len(trace) : trace[i].e = "download" /\ trace[i].returned = <<>>

\* C6: in main, the directory is scanned exactly when the download phase was
\* suppressed by a flag or returned no file; the run ends with the guidance
\* message, no file parsed and no report written, exactly when the list is
\* still empty after that; in every other run every file is parsed, and then
\* one report is generated.
C6_FallbackAndGuidance ==
    /\ Len(C5_Events("scan")) <= 1
    /\ Len(C5_Events("report")) <= 1
    /\ skip_download => C5_Events("download") = <<>>
    /\ mpc \in {"check", "loop", "parse", "done"} =>
        (C5_Events("scan") # <<>> <=> C6_NothingDownloaded)
    /\ mpc = "done" =>
        /\ C5_Events("guidance") # <<>> <=> m_files = <<>>
        /\ m_files = <<>> =>
            /\ trace[Len(trace)].e = "guidance"
            /\ C5_Events("parse") = <<>>
            /\ C5_Events("report") = <<>>
            /\ IsNone(report)
        /\ m_files # <<>> =>
            /\ Len(C5_Events("parse")) = Len(m_files)
            /\ Len(C5_Events("report")) = 1
            /\ ~IsNone(report)
            /\ \A i, j \in 1..Len(trace) :
                 trace[i].e = "parse" /\ trace[j].e = "report" => i < j
    /\ mpc # "done" => IsNone(report) /\ C5_Events("report") = <<>>

\* The download returned no file, the directory scan found two, both were
\* parsed and the report was written.
C6_Witness ==
    /\ mpc = "done"
    /\ ~skip_download
    /\ C5_Events("scan") # <<>>
    /\ Len(C5_Events("parse")) = 2
    /\ ~IsNone(report)


\* C11 as stated: for every limit other than None the returned list holds at
\* most limit paths, files found in the directory and files fetched counted
\* together.
C11_Original ==
    (dpc = "done" /\ ~IsNone(limit)) => Len(Val(dret)) <= Val(limit)


\* The section's total is further than the tolerance from the sum of its
\* amounts.
C12_Inconsistent(section, fields) ==
    Abs(section.total - SumOver(fields, [f \in fields |-> section[f]])) > Tolerance

\* The entry of a list for a condition: one entry when it holds, none when
\* it does not.
C12_Entry(cond, entry) == IF cond THEN <<entry>> ELSE <<>>

\* C12: after any call of validate(), validation_errors holds one entry
\* labelled with its section for each cost section whose total does not match
\* its line items, construction before permanent, and nothing else;
\* validation_warnings holds one entry for each of total_units,
\* total_square_feet and new_construction_total that is unset, and nothing
\* else; what an earlier validate() left is gone, and the call raises nothing.
C12_ValidateRebuildsLists ==
    ret.op = "validate" =>
        /\ app.cls = "ApplicationData"
        /\ app.validation_errors =
              C12_Entry(C12_Inconsistent(app.construction_interest_fees, CifFields),
                        <<"Construction Interest & Fees",
                          "Total does not match sum of line items">>)
              \o C12_Entry(C12_Inconsistent(app.permanent_financing, PfFields),
                           <<"Permanent Financing",
                             "Total does not match sum of line items">>)
        /\ app.validation_warnings =
              C12_Entry(app.total_units = NoneV, "Total units not found")
              \o C12_Entry(app.total_square_feet = NoneV,
                           "Total square footage not found")
              \o C12_Entry(app.new_construction_total = NoneV,
                           "New Construction total not found (using fallback)")

\* validate() was called on a record with a unit count of zero and no square
\* footage, whose permanent section alone is inconsistent: it left one error
\* and one warning.
C12_Witness ==
    /\ ret.op = "validate"
    /\ Len(app.validation_errors) = 1
    /\ app.validation_errors[1][1] = "Permanent Financing"
    /\ ~C12_Inconsistent(app.construction_interest_fees, CifFields)
    /\ app.validation_warnings = <<"Total square footage not found">>
    /\ app.total_units = Some(0)


\* The row of the first cell, rows first, whose text contains the header.
C13_HeaderRow(sh, text) ==
    LET rows == {rc[1] : rc \in {x \in DOMAIN sh.cells :
                    Contains(Lower(PyStr(sh.cells[x])), Lower(text))}}
    IN  CHOOSE r \in rows : \A o \in rows : r <= o

\* The amount in column B of a row.
C13_B(sh, row) == NumberOf(CellValue(sh, row, 2))

\* The text of column A of a row: that of a blank cell is empty.
C13_A(sh, row) ==
    LET x == CellValue(sh, row, 1)
    IN  IF x \in {Empty, Str(<<>>), Num(0), Bool(FALSE)} THEN <<>> ELSE PyStr(x)

\* d is t without the spaces at its two ends.
C13_Stripped(d, t) ==
    /\ Len(d) <= Len(t)
    /\ \E i \in 0..(Len(t) - Len(d)) :
        /\ d = SubSeq(t, i + 1, i + Len(d))
        /\ \A n \in (1..i) \cup ((i + Len(d) + 1)..Len(t)) : t[n] = " "
    /\ d # <<>> => d[1] # " " /\ d[Len(d)] # " "

\* The fields of each section in the order of its rows, "other" and the
\* total last.
C13_ConstructionOrder ==
    <<"construction_loan_interest", "origination_fee", "credit_enhancement_fee",
      "bond_premium", "cost_of_issuance", "title_recording", "taxes", "insurance",
      "other_amount", "total">>
C13_PermanentOrder ==
    <<"loan_origination_fee", "credit_enhancement_fee", "title_recording", "taxes",
      "insurance", "other_amount", "total">>

\* The section record holds, field by field, column B of the rows under the
\* header, and as description column A of the row of "other".
C13_ReadInOrder(section, sh, text, order) ==
    LET h == C13_HeaderRow(sh, text)
    IN  /\ \A k \in 1..Len(order) : section[order[k]] = C13_B(sh, h + k)
        /\ C13_Stripped(section.other_description, C13_A(sh, h + Len(order) - 1))

\* C13: with h the row of the first cell, rows first and in any column, that
\* contains the header text, the construction section is column B of rows
\* h+1..h+8 in the fixed order of its fields, row h+9 as "other" (amount in
\* column B, description in column A, whatever the label) and row h+10 as
\* total; the permanent section is rows h+1..h+5, "other" at h+6 and total at
\* h+7.  Nothing further down is read, so nothing past h+20 or h+15.
C13_SequentialOffsets ==
    /\ (ppc \in C7_PastConstruction /\ C7_HasText(SourcesUsesSheet, Hdr_construction))
       => C13_ReadInOrder(app_data.construction_interest_fees, SourcesUsesSheet,
                          Hdr_construction, C13_ConstructionOrder)
    /\ (ppc \in C7_PastPermanent /\ C7_HasText(SourcesUsesSheet, Hdr_permanent))
       => C13_ReadInOrder(app_data.permanent_financing, SourcesUsesSheet,
                          Hdr_permanent, C13_PermanentOrder)
    /\ Len(C13_ConstructionOrder) <= CifWindow
    /\ Len(C13_PermanentOrder) <= PfWindow

\* A sheet whose construction section breaks off after three rows has been
\* parsed: the rows of the section that follows were read by position, its
\* header as the fourth amount and one of its labels as the description.
C13_Witness ==
    /\ ppc = "returned"
    /\ C7_HasText(SourcesUsesSheet, Hdr_construction)
    /\ C7_HasText(SourcesUsesSheet, Hdr_permanent)
    /\ C13_HeaderRow(SourcesUsesSheet, Hdr_permanent)
         = C13_HeaderRow(SourcesUsesSheet, Hdr_construction) + 4
    /\ app_data.construction_interest_fees.construction_loan_interest = 100000 * Unit
    /\ app_data.construction_interest_fees.bond_premium = 0
    /\ app_data.construction_interest_fees.cost_of_issuance = 2000 * Unit
    /\ app_data.construction_interest_fees.other_description # <<>>
    /\ app_data.validation_errors # <<>>

---------------------------------------------------------------------------
(* extract_units_and_sf and validate() within parse(), on every application *)
(* sheet of a few rows: column D blank or a label of the unit count, with   *)
(* or without the managers' units; column G blank or the label in capitals; *)
(* column AG zero, a half or forty; column L blank or a text.               *)

\* The most rows of an application sheet.
MaxUnitRows == 2

UnitRows ==
    {(<<1, 4>> :> d) @@ (<<1, 7>> :> g) @@ (<<1, 33>> :> ag) @@ (<<1, 12>> :> l) :
        d \in {Empty, Str(<<"T", "o", "t", "a", "l", " ", "n", "u", "m", "b", "e", "r", " ", "o", "f", " ", "u", "n", "i", "t", "s">>),
               Str(<<"T", "o", "t", "a", "l", " ", "n", "u", "m", "b", "e", "r", " ", "o", "f", " ", "u", "n", "i", "t", "s", " ", "(", "e", "x", "c", "l", "u", "d", "i", "n", "g", " ", "m", "a", "n", "a", "g", "e", "r", "s", "'", " ", "u", "n", "i", "t", "s", ")">>)},
        g \in {Empty, Str(<<"T", "O", "T", "A", "L", " ", "N", "U", "M", "B", "E", "R", " ", "O", "F", " ", "U", "N", "I", "T", "S", ":">>)},
        ag \in {Num(0), Num(Unit \div 2), Num(40 * Unit)},
        l \in {Empty, Str(<<"7">>)}}

\* The sheet of the given rows, blank cells left out.
UnitSheet(rows) ==
    LET at == {<<r, c>> \in (1..Len(rows)) \X {4, 7, 12, 33} : rows[r][<<1, c>>] # Empty}
    IN  [title |-> ApplicationTitle, cells |-> [rc \in at |-> rows[rc[1]][<<1, rc[2]>>]]]

UnitSheets == {UnitSheet(rows) : rows \in SeqsUpTo(UnitRows, MaxUnitRows) \ {<<>>}}

\* parse() has come to line 358, of a workbook with or without an
\* application sheet.
InitUnits ==
    /\ \/ /\ wb = Workbook(<<SheetOf(SourcesTitle, <<>>)>>)
          /\ self = [ExcelParser(ParsePath) EXCEPT !.wb = Some("Workbook"),
                                                   !.sources_uses_sheet = Some(1)]
       \/ \E a \in UnitSheets :
          /\ wb = Workbook(<<SheetOf(SourcesTitle, <<>>), a>>)
          /\ self = [ExcelParser(ParsePath) EXCEPT !.wb = Some("Workbook"),
                                                   !.sources_uses_sheet = Some(1),
                                                   !.application_sheet = Some(2)]
    /\ ppc = "units_and_sf"
    /\ app_data = [ApplicationData EXCEPT !.file_path = ParsePath,
                                          !.application_name = Stem(ParsePath)]
    /\ ret = NoCall
    /\ IdleCost /\ IdleApp /\ IdleDl /\ IdleHelper /\ IdleMain

NextUnits ==
    \/ ParseUnitsAndSf
    \/ ParseValidate

SpecUnits == InitUnits /\ [][NextUnits]_vars


\* The cell holds a label of the unit count, the managers' units not left
\* out.
C14_Label(x) ==
    /\ x \notin {Empty, Str(<<>>), Num(0), Bool(FALSE)}
    /\ Contains(Lower(PyStr(x)), <<"t", "o", "t", "a", "l", " ", "n", "u", "m", "b", "e", "r", " ", "o", "f", " ", "u", "n", "i", "t", "s">>)
    /\ ~Contains(Lower(PyStr(x)), <<"e", "x", "c", "l", "u", "d", "i", "n", "g", " ", "m", "a", "n", "a", "g", "e", "r", "s">>)

\* The value of column AG of the row when positive, else that of column L.
C14_Value(sh, r) ==
    IF NumberOf(CellValue(sh, r, 33)) > 0 THEN NumberOf(CellValue(sh, r, 33))
    ELSE NumberOf(CellValue(sh, r, 12))

\* The rows with a label in column D or G and a positive value.
C14_Rows(sh) ==
    {r \in 1..MaxRow(sh) :
        /\ C14_Label(CellValue(sh, r, 4)) \/ C14_Label(CellValue(sh, r, 7))
        /\ C14_Value(sh, r) > 0}

\* The unit count is the whole part of the value of the first of the rows.
C14_TakenFromFirst(sh) ==
    LET r == CHOOSE x \in C14_Rows(sh) : \A o \in C14_Rows(sh) : x <= o
    IN  /\ ~IsNone(app_data.total_units)
        /\ Val(app_data.total_units) * Unit <= C14_Value(sh, r)
        /\ C14_Value(sh, r) < (Val(app_data.total_units) + 1) * Unit

\* C14: extract_units_and_sf takes the unit count from the first row, from
\* the top, in which column D or G holds a label containing "total number of
\* units" and not "excluding managers", and column AG, or else column L,
\* holds a positive value; with no such row, or no application sheet, the
\* unit count stays None.
C14_UnitsFromFirstLabelledRow ==
    ppc \in {"validate", "returned"} =>
        IF IsNone(ApplicationSheet) THEN app_data.total_units = NoneV
        ELSE IF C14_Rows(Val(ApplicationSheet)) = {} THEN app_data.total_units = NoneV
        ELSE C14_TakenFromFirst(Val(ApplicationSheet))

\* The first row holds a label and no positive value, the second the label
\* and a positive value in column L only: the count is taken from the second.
C14_Witness ==
    /\ ppc = "returned"
    /\ ~IsNone(ApplicationSheet)
    /\ C14_Label(CellValue(Val(ApplicationSheet), 1, 4))
    /\ C14_Rows(Val(ApplicationSheet)) = {2}
    /\ NumberOf(CellValue(Val(ApplicationSheet), 2, 33)) = 0
    /\ app_data.total_units = Some(7)

\* C16 as stated: a unit count that is set is an integer of at least 1,
\* whatever positive value was read; so a record whose count is set has a
\* per-unit metric, and one whose count is not set has the warning "Total
\* units not found".
C16_Original ==
    /\ (ppc \in {"validate", "returned"} /\ ~IsNone(app_data.total_units))
       => Val(app_data.total_units) >= 1
    /\ ppc = "returned" =>
        /\ ~IsNone(app_data.total_units)
           => ~IsNone(GetFinancingCostsPerUnit(app_data))
        /\ IsNone(app_data.total_units)
           => \E i \in 1..Len(app_data.validation_warnings) :
                app_data.validation_warnings[i] = "Total units not found"


\* The response did not fail, and its content type has "excel" or
\* "spreadsheet" in it or its body begins with the four bytes of a zip file.
C15_Accepted(r) ==
    /\ r.t = "ok"
    /\ \/ \E i \in 1..Len(r.content_type) :
            LowerTok(r.content_type[i]) \in {"excel", "spreadsheet"}
       \/ Len(r.content) >= 4 /\ SubSeq(r.content, 1, 4) = <<80, 75, 3, 4>>

\* C15: a fetched file is written to the output directory and added to the
\* returned list only if its content type contains "excel" or "spreadsheet"
\* or its first four bytes are the zip signature; for a response that meets
\* neither no file is created and no path is returned.
C15_OnlySpreadsheetsKept ==
    /\ \A f \in disk \ disk0 :
        \E j \in 1..Len(net) : net[j].filename = f /\ C15_Accepted(net[j].resp)
    /\ \A j \in 1..Len(net) :
        ~C15_Accepted(net[j].resp) =>
            /\ net[j].filename \notin disk
            /\ FilePath(net[j].filename) \notin Range(excel_files)
            /\ dpc = "done" => FilePath(net[j].filename) \notin Range(Val(dret))
    /\ \A i \in 1..Len(excel_files) :
        \/ excel_files[i].name \in disk0
        \/ \E j \in 1..Len(net) :
            excel_files[i].name = net[j].filename /\ C15_Accepted(net[j].resp)

\* The call has returned after a response with a body of two bytes and no
\* content type was dropped and one taken for its content type alone was
\* kept.
C15_Witness ==
    /\ dpc = "done"
    /\ \E j, k \in 1..Len(net) :
        /\ net[j].resp.t = "ok" /\ net[j].resp.content = <<80, 75>>
        /\ net[j].filename \notin disk
        /\ net[k].resp.t = "ok" /\ First4(net[k].resp.content) = OLE
        /\ net[k].filename \in disk
        /\ FilePath(net[k].filename) \in Range(Val(dret))

=============================================================================
